---- MODULE Spec2Model ----
(***************************************************************************)
(* EventHandler of the swap service: the handlers that react to chain,     *)
(* Lightning and nursery events, write the new status of a submarine or    *)
(* reverse swap to its repository under an AsyncLock and emit swap.update, *)
(* swap.success and swap.failure.                                          *)
(*                                                                         *)
(* Every handler is an async function: it is split at its awaits.          *)
(*   deliver  the event arrives, the handler calls lock.acquire            *)
(*   read     the repository lookup returned (await getSwap)               *)
(*   write    the repository update returned (await set...)                *)
(*   emit     the emissions after the write, then the lock is released     *)
(* trace[key] is the history of the reads, writes and emissions of the     *)
(* handlers of one lock key, in order; nextH[key] numbers them by arrival. *)
(* The events of one behaviour are those of the swaps of one table, scope: *)
(* the handlers of the two tables share no row and no lock key.            *)
(*                                                                         *)
(* The Controller keeps the message of the last swap.update of every swap  *)
(* in pendingSwapInfos and rebuilds it from the repositories in init.      *)
(* The Service creates the swaps: swapCall and reverseSwapCall are the     *)
(* createSwap and createReverseSwap call of a behaviour.                   *)
(***************************************************************************)
EXTENDS Integers, Sequences, FiniteSets, TLC

VARIABLES swaps, reverseSwaps, queue, trace, nextH, nEvents, scope,
          pendingSwapInfos, swapCall, reverseSwapCall,
          pendingSwapStreams, responses,
          node, zmqClient, chainEvents, feeCall, statsCall,
          keyRepository, walletManager, service

vars == <<swaps, reverseSwaps, queue, trace, nextH, nEvents, scope,
          pendingSwapInfos, swapCall, reverseSwapCall,
          pendingSwapStreams, responses,
          node, zmqClient, chainEvents, feeCall, statsCall,
          keyRepository, walletManager, service>>

\* the variables of the EventHandler's locks, and those of the Service's calls
eventVars == <<queue, trace, nextH, nEvents, scope>>
callVars == <<swapCall, reverseSwapCall>>

\* the streams of the Controller, and the variables of the chain client and
\* of the statistics, which neither the EventHandler nor the Service touches
streamVars == <<pendingSwapStreams, responses>>
chainVars == <<node, zmqClient, chainEvents, feeCall>>
\* the key repository, the WalletManager and the call of an operation of the
\* Service that takes a symbol
serviceVars == <<keyRepository, walletManager, service>>
farVars == <<chainVars, statsCall, serviceVars>>

\* the number of events delivered in one behaviour
MaxEvents == 3

\* ---------------------------------------------------------------- data

\* SwapUpdateEvent; a status that was never set (null) is NoStatus
NoStatus == "none"
SwapCreated == "SwapCreated"
TransactionMempool == "TransactionMempool"
TransactionConfirmed == "TransactionConfirmed"
InvoicePaid == "InvoicePaid"
InvoiceFailedToPay == "InvoiceFailedToPay"
InvoiceSettled == "InvoiceSettled"
TransactionClaimed == "TransactionClaimed"
TransactionFailed == "TransactionFailed"
TransactionRefunded == "TransactionRefunded"
SwapExpired == "SwapExpired"

\* the lock keys of the AsyncLock
swapLock == "swap"
reverseSwapLock == "reverseSwap"
LockKeys == {swapLock, reverseSwapLock}

\* the rows of the two tables
Sub == {"s1"}
Rev == {"r1"}
NoSwap == "none"
NoValue == "none"
\* a call that was not made
NoCall == [pc |-> "none"]

InvoiceOf == ("s1" :> "i1") @@ ("r1" :> "i2")
LockupAddressOf == ("s1" :> "a1")

\* the lockup transaction the service sends for a reverse swap
LockupOf == ("r1" :> "t3")

\* expectedAmount of createSwap: returned to the caller, not stored by addSwap
ExpectedAmount == 3

\* the transactions the chain client reports: an underfunded and a funded
\* lockup of the submarine swap, and the two-output lockup of the reverse swap
Transactions ==
  { [id |-> "t1", outs |-> <<[address |-> "a1", value |-> 2]>>],
    [id |-> "t2", outs |-> <<[address |-> "a1", value |-> 3]>>],
    [id |-> "t3", outs |-> <<[address |-> "a0", value |-> 1],
                             [address |-> "a0", value |-> 1]>>] }

\* the transaction pays the lockup address of a submarine swap
PaysSwap(tx) ==
  \E s \in Sub, j \in 1..Len(tx.outs) : tx.outs[j].address = LockupAddressOf[s]

\* ------------------------------------------------------------ AsyncLock

\* a mutant: the new task is served before the tasks already waiting
Acquire_lifo(q, task) == <<task>> \o q

\* lock.acquire(key, fn): fn is queued behind the pending tasks of the key
Acquire(q, task) == Append(q, task)

RECURSIVE AcquireAll(_, _)
AcquireAll(q, tasks) ==
  IF tasks = <<>> THEN q ELSE AcquireAll(Acquire(q, Head(tasks)), Tail(tasks))

\* a mutant: every pending task of the key runs at once
LockHolders_all(q) == 1..Len(q)

\* the positions of the queue whose task holds the lock: the oldest one only
LockHolders(q) == IF q = <<>> THEN {} ELSE {1}

\* the lock is released when fn's promise settles
Release(q, i) == [j \in 1..(Len(q) - 1) |-> IF j < i THEN q[j] ELSE q[j + 1]]

\* ------------------------------------------------------------- handlers

\* a handler that has called lock.acquire
Task(h, kind, reverse, arg, txid, value, confirmed) ==
  [h |-> h, kind |-> kind, reverse |-> reverse, arg |-> arg, txid |-> txid,
   value |-> value, confirmed |-> confirmed,
   pc |-> "wait", id |-> NoSwap, seen |-> NoStatus]

\* a mutant: the where clause is dropped
Matches_all(t) ==
  IF t.reverse THEN DOMAIN reverseSwaps ELSE DOMAIN swaps

\* getSwap / getReverseSwap: the rows the where clause of the handler matches
Matches(t) ==
  IF ~t.reverse
  THEN CASE t.kind = "transaction" ->
              {s \in DOMAIN swaps : swaps[s].lockupAddress = t.arg}
         [] t.kind = "claim" ->
              {s \in DOMAIN swaps : swaps[s].lockupTransactionId = t.arg}
         [] OTHER ->
              {s \in DOMAIN swaps : swaps[s].invoice = t.arg}
  ELSE CASE t.kind \in {"transaction", "refund"} ->
              {r \in DOMAIN reverseSwaps : reverseSwaps[r].transactionId = t.arg}
         [] OTHER ->
              {r \in DOMAIN reverseSwaps : reverseSwaps[r].invoice = t.arg}

Row(t, id) == IF t.reverse THEN reverseSwaps[id] ELSE swaps[id]

\* a mutant: a lockup transaction is recorded for a confirmed swap too
Proceeds_confirmed(t, row) ==
  IF t.kind # "transaction" THEN TRUE
  ELSE IF ~t.reverse
       THEN row.status \in {NoStatus, TransactionMempool, TransactionConfirmed}
       ELSE row.status = TransactionMempool

\* a mutant: a lockup transaction is recorded whatever the status is
Proceeds_unguarded(t, row) == TRUE

\* the condition under which the handler goes on to write, once a row is found
Proceeds(t, row) ==
  IF t.kind # "transaction" THEN TRUE
  ELSE IF ~t.reverse
       THEN row.status \in {NoStatus, TransactionMempool}
       ELSE row.status = TransactionMempool

\* the status the lockup write stores (setLockupTransactionId)
LockupStatus(confirmed) ==
  IF confirmed THEN TransactionConfirmed ELSE TransactionMempool

\* the status stored by the setters that are not given one: setInvoiceSettled,
\* setInvoicePaid, setMinerFee, setLockupTransaction, setTransactionRefunded
SetterStatus(t) ==
  CASE t.kind = "transaction" -> LockupStatus(t.confirmed)
    [] t.kind = "invoice.settled" -> InvoiceSettled
    [] t.kind = "invoice.paid" -> InvoicePaid
    [] t.kind = "claim" -> TransactionClaimed
    [] t.kind = "coins.sent" -> TransactionMempool
    [] t.kind = "refund" -> TransactionRefunded

\* the status a handler's repository call stores
WrittenStatus(t) ==
  CASE t.kind = "transaction" /\ t.reverse -> TransactionConfirmed
    [] t.kind = "invoice.failedToPay" -> InvoiceFailedToPay
    [] t.kind = "expiration" -> SwapExpired
    [] t.kind = "coins.failedToSend" -> TransactionFailed
    [] OTHER -> SetterStatus(t)

\* the repository setters: one update of the row, status and side data
setLockupTransactionId(row, lockupTransactionId, onchainAmount, confirmed) ==
  [row EXCEPT !.lockupTransactionId = lockupTransactionId,
              !.onchainAmount = onchainAmount,
              !.status = LockupStatus(confirmed)]

setStatus(row, status) == [row EXCEPT !.status = status]

setLockupTransaction(row, transactionId) ==
  [row EXCEPT !.transactionId = transactionId, !.status = TransactionMempool]

\* the preimage lnd reports with the invoice.settled event of an invoice
PreimageOf == [invoice \in {InvoiceOf[r] : r \in Rev} |-> "p1"]

setInvoiceSettled(row, preimage) ==
  [row EXCEPT !.preimage = preimage, !.status = InvoiceSettled]

\* the row after the handler's repository call
Written(t, row) ==
  CASE t.kind = "transaction" /\ ~t.reverse ->
         setLockupTransactionId(row, t.txid, t.value, t.confirmed)
    [] t.kind = "coins.sent" -> setLockupTransaction(row, t.txid)
    [] t.kind = "invoice.settled" -> setInvoiceSettled(row, PreimageOf[t.arg])
    [] OTHER -> setStatus(row, WrittenStatus(t))

\* a mutant: a zero-conf swap is reported confirmed at the mempool sighting
UpdateStatus_zeroconf(confirmed, acceptZeroConf) ==
  IF confirmed \/ acceptZeroConf THEN TransactionConfirmed ELSE TransactionMempool

\* the status of the swap.update a lockup transaction of a submarine swap emits
UpdateStatus(confirmed, acceptZeroConf) ==
  IF confirmed THEN TransactionConfirmed ELSE TransactionMempool

\* whether a lockup transaction of a submarine swap emits a swap.update
EmitsUpdate(confirmed, acceptZeroConf) == confirmed \/ acceptZeroConf

\* an entry of the trace; isReverse is the table of a read or a write, and the
\* isReverse argument of a swap.success or swap.failure
Entry(op, t, id, status) ==
  [op |-> op, h |-> t.h, kind |-> t.kind, id |-> id,
   status |-> status, confirmed |-> t.confirmed, value |-> t.value,
   arg |-> t.arg, txid |-> t.txid, isReverse |-> t.reverse]

Marker(op, t, status, isReverse) ==
  [Entry(op, t, t.id, status) EXCEPT !.isReverse = isReverse]

\* a mutant: the failure of a swap is reported by its swap.update only
handleFailedSwap_silent(t, status) == <<Entry("swap.update", t, t.id, status)>>

handleFailedSwap(t, status) ==
  <<Entry("swap.update", t, t.id, status), Marker("swap.failure", t, status, FALSE)>>

handleFailedReverseSwap(t, status) ==
  <<Entry("swap.update", t, t.id, status), Marker("swap.failure", t, status, TRUE)>>

\* a mutant: the claim handler reports the success before the status
ClaimEmissions_successFirst(t) ==
  <<Marker("swap.success", t, TransactionClaimed, FALSE),
    Entry("swap.update", t, t.id, TransactionClaimed)>>

\* what the claim handler emits
ClaimEmissions(t) ==
  <<Entry("swap.update", t, t.id, TransactionClaimed),
    Marker("swap.success", t, TransactionClaimed, FALSE)>>

\* what the handler emits after its repository call
Emissions(t) ==
  CASE t.kind = "transaction" /\ ~t.reverse ->
         IF EmitsUpdate(t.confirmed, swaps[t.id].acceptZeroConf)
         THEN <<Entry("swap.update", t, t.id,
                      UpdateStatus(t.confirmed, swaps[t.id].acceptZeroConf))>>
         ELSE <<>>
    [] t.kind = "transaction" /\ t.reverse ->
         <<Entry("swap.update", t, t.id, TransactionConfirmed)>>
    [] t.kind = "invoice.settled" ->
         <<Entry("swap.update", t, t.id, InvoiceSettled),
           Marker("swap.success", t, InvoiceSettled, TRUE)>>
    [] t.kind = "invoice.paid" ->
         <<Entry("swap.update", t, t.id, InvoicePaid)>>
    [] t.kind = "invoice.failedToPay" -> handleFailedSwap(t, InvoiceFailedToPay)
    [] t.kind = "claim" -> ClaimEmissions(t)
    [] t.kind = "expiration" ->
         IF t.reverse THEN handleFailedReverseSwap(t, SwapExpired)
         ELSE handleFailedSwap(t, SwapExpired)
    [] t.kind = "coins.sent" ->
         <<Entry("swap.update", t, t.id, TransactionMempool)>>
    [] t.kind = "coins.failedToSend" -> handleFailedReverseSwap(t, TransactionFailed)
    [] t.kind = "refund" -> handleFailedReverseSwap(t, TransactionRefunded)

\* a mutant: the emission does not wait for the repository call
EmitReady_early(t) == t.pc \in {"read", "written"}

\* the emissions follow the awaited repository call
EmitReady(t) == t.pc = "written"

\* ----------------------------------------------------------- Controller

\* the message of a swap.update, and of a status loaded by init; transactionId
\* and preimage are NoValue in a message without them
Message(status, transactionId) ==
  [status |-> status, transactionId |-> transactionId, preimage |-> NoValue]

\* pendingSwapInfos.get(id) of a swap no message was set for
NoInfo == Message(NoStatus, NoValue)

\* the message the EventHandler emits with a swap.update: the lockup
\* transaction goes with the updates of the reverse swap's transaction
MessageOf(e) ==
  Message(e.status,
          IF e.isReverse /\ e.kind \in {"transaction", "coins.sent"}
          THEN e.txid ELSE NoValue)

\* the HTTP responses a stream may be opened on, and pendingSwapStreams.get(id)
\* of a swap without a stream
Responses == {"res1", "res2"}
NoStream == "none"

\* a response no request has come in on yet
NewResponse == [state |-> "new", id |-> NoSwap, written |-> <<>>]

\* a mutant: the listener keeps the first message of a swap
SetInfo_first(infos, id, message) ==
  IF infos[id] = NoInfo THEN [infos EXCEPT ![id] = message] ELSE infos

\* pendingSwapInfos.set(id, message)
SetInfo(infos, id, message) == [infos EXCEPT ![id] = message]

\* the swap.update listener of the Controller, run by every emit: the map
RECURSIVE OnSwapUpdate(_, _)
OnSwapUpdate(infos, emissions) ==
  IF emissions = <<>> THEN infos
  ELSE LET e == Head(emissions) IN
         OnSwapUpdate(IF e.op = "swap.update"
                      THEN SetInfo(infos, e.id, MessageOf(e))
                      ELSE infos,
                      Tail(emissions))

\* the swap.update listener of the Controller, run by every emit: the write
\* to the stream of the swap, if it has one
RECURSIVE WriteUpdates(_, _, _)
WriteUpdates(resps, streams, emissions) ==
  IF emissions = <<>> THEN resps
  ELSE LET e == Head(emissions) IN
         WriteUpdates(IF e.op = "swap.update" /\ streams[e.id] # NoStream
                      THEN [resps EXCEPT ![streams[e.id]].written = Append(@, MessageOf(e))]
                      ELSE resps,
                      streams, Tail(emissions))

\* a mutant: init loads the submarine swaps only
ControllerInit_swapsOnly(rows, reverseRows) ==
  [id \in Sub \cup Rev |->
     IF id \in DOMAIN rows /\ rows[id].status # NoStatus
     THEN Message(rows[id].status, NoValue) ELSE NoInfo]

\* a mutant: init loads the status of a settled reverse swap only
InitMessage_statusOnly(reverseRow) == Message(reverseRow.status, NoValue)

\* the message init builds for a reverse swap: the status, and the preimage
\* too when the status is InvoiceSettled
InitMessage(reverseRow) ==
  IF reverseRow.status # InvoiceSettled
  THEN Message(reverseRow.status, NoValue)
  ELSE [Message(reverseRow.status, NoValue) EXCEPT !.preimage = reverseRow.preimage]

\* Controller.init: the map holds the status of every row that has one; the
\* reverse swaps are loaded after the swaps
ControllerInit(rows, reverseRows) ==
  [id \in Sub \cup Rev |->
     IF id \in DOMAIN reverseRows /\ reverseRows[id].status # NoStatus
     THEN InitMessage(reverseRows[id])
     ELSE IF id \in DOMAIN rows /\ rows[id].status # NoStatus
     THEN Message(rows[id].status, NoValue)
     ELSE NoInfo]

\* Controller.swapStatus: the message of the swap, or the 404 error
swapStatus(id) ==
  IF pendingSwapInfos[id] # NoInfo
  THEN [code |-> 200, body |-> pendingSwapInfos[id]]
  ELSE [code |-> 404, body |-> NoInfo]

\* no stream was asked for
NoStreams ==
  /\ pendingSwapStreams = [id \in Sub \cup Rev |-> NoStream]
  /\ responses = [res \in Responses |-> NewResponse]

\* the chain client is not connected, and no statistics are asked for
NoChainClient ==
  /\ node = [height |-> 0, transactions |-> <<>>, blocks |-> <<>>, mempool |-> {},
            rawtx |-> <<>>, rawblock |-> <<>>]
  /\ zmqClient = [relevantOutputs |-> {}, utxos |-> {}]
  /\ chainEvents = <<>>
  /\ feeCall = NoCall

NoStats == statsCall = NoCall

\* no WalletManager was made, and no operation of the Service was called
NoWallets ==
  /\ keyRepository = {}
  /\ walletManager = NoCall
  /\ service = NoCall


\* ------------------------------------------------------------- the state

\* the row addSwap inserts: no status, no lockup transaction yet
addSwap(id, invoice, acceptZeroConf, lockupAddress) ==
  [id |-> id, invoice |-> invoice, lockupAddress |-> lockupAddress,
   acceptZeroConf |-> acceptZeroConf, status |-> NoStatus,
   lockupTransactionId |-> NoValue, onchainAmount |-> 0]

\* the row addReverseSwap inserts: the lockup transaction id, no status and
\* no preimage
addReverseSwap(id, invoice, transactionId, onchainAmount) ==
  [id |-> id, invoice |-> invoice, transactionId |-> transactionId, preimage |-> NoValue,
   onchainAmount |-> onchainAmount, status |-> NoStatus]

\* the callers of createSwap
Callers == {"c1", "c2"}

\* the swaps were created before the first event of the behaviour
Init ==
  /\ \E z \in BOOLEAN :
       swaps = [s \in Sub |-> addSwap(s, InvoiceOf[s], z, LockupAddressOf[s])]
  /\ reverseSwaps = [r \in Rev |-> addReverseSwap(r, InvoiceOf[r], LockupOf[r], 1)]
  /\ queue = [k \in LockKeys |-> <<>>]
  /\ trace = [k \in LockKeys |-> <<>>]
  /\ nextH = [k \in LockKeys |-> 1]
  /\ nEvents = 0
  /\ scope \in LockKeys
  /\ pendingSwapInfos = [id \in Sub \cup Rev |-> NoInfo]
  /\ NoStreams
  /\ NoChainClient
  /\ NoStats
  /\ NoWallets
  /\ swapCall = [c \in Callers |-> NoCall]
  /\ reverseSwapCall = NoCall

\* --------------------------------------------------------- the deliveries

\* the tasks of a 'transaction' event, per output: the swap branch, and the
\* reverse swap branch when the transaction is confirmed
SwapTasks(tx, confirmed) ==
  [j \in 1..Len(tx.outs) |->
     Task(nextH[swapLock] + (j - 1), "transaction", FALSE,
          tx.outs[j].address, tx.id, tx.outs[j].value, confirmed)]

ReverseSwapTasks(tx, confirmed) ==
  IF ~confirmed THEN <<>>
  ELSE [j \in 1..Len(tx.outs) |->
          Task(nextH[reverseSwapLock] + (j - 1), "transaction", TRUE,
               tx.id, tx.id, tx.outs[j].value, confirmed)]

Delivered ==
  /\ nEvents < MaxEvents
  /\ nEvents' = nEvents + 1
  /\ nextH' = [k \in LockKeys |-> nextH[k] + Len(queue'[k]) - Len(queue[k])]
  /\ UNCHANGED <<swaps, reverseSwaps, trace, scope>>
  /\ UNCHANGED <<pendingSwapInfos, callVars, streamVars, farVars>>

\* chainClient.on('transaction')
ChainTransaction(tx, confirmed) ==
  /\ scope = (IF PaysSwap(tx) THEN swapLock ELSE reverseSwapLock)
  /\ queue' = [queue EXCEPT
                 ![swapLock] = AcquireAll(@, SwapTasks(tx, confirmed)),
                 ![reverseSwapLock] = AcquireAll(@, ReverseSwapTasks(tx, confirmed))]
  /\ Delivered

\* an event whose handler takes one lock
Single(key, kind, reverse, arg, txid) ==
  /\ scope = key
  /\ queue' = [queue EXCEPT
                 ![key] = Acquire(@, Task(nextH[key], kind, reverse, arg, txid, 0, FALSE))]
  /\ Delivered

\* lndClient.on('invoice.settled')
InvoiceSettledEvent(invoice) ==
  Single(reverseSwapLock, "invoice.settled", TRUE, invoice, NoValue)

\* nursery.on('invoice.paid')
InvoicePaidEvent(invoice) ==
  Single(swapLock, "invoice.paid", FALSE, invoice, NoValue)

\* nursery.on('invoice.failedToPay')
InvoiceFailedToPayEvent(invoice) ==
  Single(swapLock, "invoice.failedToPay", FALSE, invoice, NoValue)

\* nursery.on('claim')
ClaimEvent(lockupTransactionId) ==
  Single(swapLock, "claim", FALSE, lockupTransactionId, NoValue)

\* nursery.on('expiration')
ExpirationEvent(invoice, isReverse) ==
  Single(IF isReverse THEN reverseSwapLock ELSE swapLock,
         "expiration", isReverse, invoice, NoValue)

\* nursery.on('coins.sent')
CoinsSentEvent(invoice, txid) ==
  Single(reverseSwapLock, "coins.sent", TRUE, invoice, txid)

\* nursery.on('coins.failedToSend')
CoinsFailedToSendEvent(invoice) ==
  Single(reverseSwapLock, "coins.failedToSend", TRUE, invoice, NoValue)

\* nursery.on('refund')
RefundEvent(lockupTransactionId) ==
  Single(reverseSwapLock, "refund", TRUE, lockupTransactionId, NoValue)

\* ------------------------------------------------------ the handler steps

\* await getSwap / getReverseSwap returns; without a row, or when the status
\* check fails, the handler returns and the lock is released
HandlerRead(k) ==
  \E i \in LockHolders(queue[k]) :
    LET t == queue[k][i] IN
      /\ t.pc = "wait"
      /\ IF Matches(t) = {}
         THEN /\ queue' = [queue EXCEPT ![k] = Release(@, i)]
              /\ trace' = [trace EXCEPT ![k] = Append(@, Entry("read", t, NoSwap, NoStatus))]
         ELSE \E id \in Matches(t) :
                LET row == Row(t, id) IN
                  /\ trace' = [trace EXCEPT ![k] = Append(@, Entry("read", t, id, row.status))]
                  /\ IF Proceeds(t, row)
                     THEN queue' = [queue EXCEPT
                                      ![k][i] = [t EXCEPT !.pc = "read", !.id = id,
                                                          !.seen = row.status]]
                     ELSE queue' = [queue EXCEPT ![k] = Release(@, i)]
      /\ UNCHANGED <<swaps, reverseSwaps, nextH, nEvents, scope>>
      /\ UNCHANGED <<pendingSwapInfos, callVars, streamVars, farVars>>

\* the awaited repository call returns
HandlerWrite(k) ==
  \E i \in LockHolders(queue[k]) :
    LET t == queue[k][i] IN
      /\ t.pc = "read"
      /\ IF t.reverse
         THEN /\ reverseSwaps' = [reverseSwaps EXCEPT ![t.id] = Written(t, @)]
              /\ UNCHANGED swaps
         ELSE /\ swaps' = [swaps EXCEPT ![t.id] = Written(t, @)]
              /\ UNCHANGED reverseSwaps
      /\ trace' = [trace EXCEPT ![k] = Append(@, Entry("write", t, t.id, Written(t, Row(t, t.id)).status))]
      /\ queue' = [queue EXCEPT ![k][i] = [t EXCEPT !.pc = "written"]]
      /\ UNCHANGED <<nextH, nEvents, scope>>
      /\ UNCHANGED <<pendingSwapInfos, callVars, streamVars, farVars>>

\* the emissions, each one running the Controller's listener, after which the
\* handler returns and the lock is released
HandlerEmit(k) ==
  \E i \in LockHolders(queue[k]) :
    LET t == queue[k][i] IN
      /\ t.pc # "wait"
      /\ EmitReady(t)
      /\ trace' = [trace EXCEPT ![k] = @ \o Emissions(t)]
      /\ pendingSwapInfos' = OnSwapUpdate(pendingSwapInfos, Emissions(t))
      /\ responses' = WriteUpdates(responses, pendingSwapStreams, Emissions(t))
      /\ queue' = [queue EXCEPT ![k] = Release(@, i)]
      /\ UNCHANGED <<swaps, reverseSwaps, nextH, nEvents, scope>>
      /\ UNCHANGED <<callVars, pendingSwapStreams, farVars>>

Next ==
  \/ \E tx \in Transactions, confirmed \in BOOLEAN : ChainTransaction(tx, confirmed)
  \/ \E r \in Rev : InvoiceSettledEvent(InvoiceOf[r])
  \/ \E s \in Sub : InvoicePaidEvent(InvoiceOf[s])
  \/ \E s \in Sub : InvoiceFailedToPayEvent(InvoiceOf[s])
  \/ \E tx \in Transactions : PaysSwap(tx) /\ ClaimEvent(tx.id)
  \/ \E s \in Sub : ExpirationEvent(InvoiceOf[s], FALSE)
  \/ \E r \in Rev : ExpirationEvent(InvoiceOf[r], TRUE)
  \/ \E r \in Rev : CoinsSentEvent(InvoiceOf[r], LockupOf[r])
  \/ \E r \in Rev : CoinsFailedToSendEvent(InvoiceOf[r])
  \/ \E r \in Rev : RefundEvent(reverseSwaps[r].transactionId)
  \/ \E k \in LockKeys : HandlerRead(k)
  \/ \E k \in LockKeys : HandlerWrite(k)
  \/ \E k \in LockKeys : HandlerEmit(k)

Spec == Init /\ [][Next]_vars

\* ------------------------------------------------------------ the restart

\* the process dies and is started again: the handlers in flight and the map
\* of the Controller are lost, the repositories are kept, and Controller.init
\* runs before an event is delivered; a restart counts as an event
Restart ==
  /\ nEvents < MaxEvents
  /\ nEvents' = nEvents + 1
  /\ queue' = [k \in LockKeys |-> <<>>]
  /\ pendingSwapInfos' = ControllerInit(swaps, reverseSwaps)
  /\ pendingSwapStreams' = [id \in DOMAIN pendingSwapStreams |-> NoStream]
  /\ responses' = [res \in DOMAIN responses |->
                     IF responses[res].state = "open"
                     THEN [state |-> "closed", id |-> NoSwap, written |-> <<>>]
                     ELSE responses[res]]
  /\ UNCHANGED <<swaps, reverseSwaps, trace, nextH, scope>>
  /\ UNCHANGED <<callVars, farVars>>

NextRestart ==
  \/ Next
  \/ Restart

SpecRestart == Init /\ [][NextRestart]_vars

\* ------------------------------------------------------------ the streams

\* the response of the next request: the responses are taken in their order
FirstNew ==
  IF responses["res1"].state = "new" THEN "res1" ELSE "res2"

\* a response that was closed: nothing is written to it any more
ClosedResponse == [state |-> "closed", id |-> NoSwap, written |-> <<>>]

\* Controller.streamSwapStatus: the response becomes the stream of the swap;
\* the streams asked for are those of swaps of the table the behaviour is
\* about
streamSwapStatus(id, res) ==
  /\ id \in (IF scope = swapLock THEN Sub ELSE Rev)
  /\ responses[res].state = "new"
  /\ res = FirstNew
  /\ pendingSwapStreams' = [pendingSwapStreams EXCEPT ![id] = res]
  /\ responses' = [responses EXCEPT ![res] = [@ EXCEPT !.state = "open", !.id = id]]
  /\ UNCHANGED <<swaps, reverseSwaps, queue, trace, nextH, nEvents, scope>>
  /\ UNCHANGED <<pendingSwapInfos, callVars, farVars>>

\* res.on('close'): the client went away
CloseResponse(res) ==
  /\ responses[res].state = "open"
  /\ pendingSwapStreams' = [pendingSwapStreams EXCEPT ![responses[res].id] = NoStream]
  /\ responses' = [responses EXCEPT ![res] = ClosedResponse]
  /\ UNCHANGED <<swaps, reverseSwaps, queue, trace, nextH, nEvents, scope>>
  /\ UNCHANGED <<pendingSwapInfos, callVars, farVars>>

\* no handler is in flight
Idle == \A k \in LockKeys : queue[k] = <<>>

\* the Controller is followed over events that arrive one after the other:
\* an event is delivered when the handlers of the one before have returned
NextController ==
  \/ Idle /\ Next
  \/ \E k \in LockKeys : HandlerRead(k)
  \/ \E k \in LockKeys : HandlerWrite(k)
  \/ \E k \in LockKeys : HandlerEmit(k)
  \/ Restart
  \/ \E id \in Sub \cup Rev, res \in Responses : streamSwapStatus(id, res)
  \/ \E res \in Responses : CloseResponse(res)

\* the Controller is followed over the reverse swaps, whose updates come with
\* and without a transaction
InitController == Init /\ scope = reverseSwapLock

SpecController == InitController /\ [][NextController]_vars

\* ------------------------------------------------------------ the Service

\* the largest invoice amount and the largest fee of a request
MaxInvoiceAmount == 4
MaxFee == 1

BUY == "BUY"
SELL == "SELL"

\* the order sides of a request: 0, 1, and a number that is no order side
OrderSides == {BUY, SELL, "other"}

\* what the Service may lack when a creation is called: the pair, the chain
\* currency, the limits of the pair, the permission to create reverse swaps
Missing == {NoValue, "pair", "currency", "limits", "allowReverseSwaps"}

\* the ids generateId draws from
Ids == Sub \cup Rev

\* the rates of the pairs, as fractions a double holds exactly
Rates == {[num |-> 1, den |-> 1], [num |-> 1, den |-> 2], [num |-> 3, den |-> 2]}

\* the limits of the pairs
Limits == [minimal |-> 1, maximal |-> MaxInvoiceAmount]

\* what a creation is called with, what the Service is configured with, and
\* what the fee provider answers
Requests ==
  [invoice : {"i1"}, invoiceAmount : 0..MaxInvoiceAmount, rate : Rates,
   orderSide : OrderSides, baseFee : 0..MaxFee, percentageFee : 0..MaxFee,
   missing : Missing]

\* the requests of the concurrent creations: all of them pass the validation
ValidRequests ==
  [invoice : {"i1", "i3"}, invoiceAmount : {2}, rate : {[num |-> 1, den |-> 1]},
   orderSide : {BUY}, baseFee : {0}, percentageFee : {1}, missing : {NoValue}]

\* the address swapManager.createSwap derives for a call, and the invoice and
\* the lockup transaction swapManager.createReverseSwap returns
AddressOf == ("c1" :> "a1") @@ ("c2" :> "a2")
ManagerInvoice == InvoiceOf["r1"]
ManagerLockup == LockupOf["r1"]

NoError == "none"

\* the error of an insert the repository refuses
Rejected == "REJECTED"

\* a mutant: the amount is rounded down
Ceil_floor(n, d) == n \div d

\* Math.ceil and Math.floor of n / d, for n >= 0 and d > 0
Ceil(n, d) == (n + d - 1) \div d

Floor(n, d) == n \div d

\* the first error thrown by a sequence of checks, or NoError
RECURSIVE FirstError(_)
FirstError(errors) ==
  IF errors = <<>> THEN NoError
  ELSE IF Head(errors) # NoError THEN Head(errors)
  ELSE FirstError(Tail(errors))

\* a mutant: createSwap does not look for a swap with the invoice
swapWithInvoice_unchecked(rows, invoice) == NoError

\* createSwap: getSwapByInvoice and the error thrown when it finds a swap
swapWithInvoice(rows, invoice) ==
  IF \E s \in DOMAIN rows : rows[s].invoice = invoice
  THEN "SWAP_WITH_INVOICE_EXISTS" ELSE NoError

\* createReverseSwap: the allowReverseSwaps check
reverseSwapsAllowed(q) ==
  IF q.missing = "allowReverseSwaps" THEN "REVERSE_SWAPS_DISABLED" ELSE NoError

getPair(q) == IF q.missing = "pair" THEN "PAIR_NOT_FOUND" ELSE NoError

getOrderSide(q) ==
  IF q.orderSide \notin {BUY, SELL} THEN "ORDER_SIDE_NOT_FOUND" ELSE NoError

getChainConfig(q) == IF q.missing = "currency" THEN "CURRENCY_NOT_FOUND" ELSE NoError

\* a mutant: the amount is compared with the maximal as it is
Exceeds_unrounded(amount, maximal) == amount.num > maximal * amount.den

\* Math.floor(amount) > limits.maximal, of an amount that may not be whole
Exceeds(amount, maximal) == Floor(amount.num, amount.den) > maximal

\* Math.ceil(amount) < limits.minimal
Beneath(amount, minimal) == Ceil(amount.num, amount.den) < minimal

\* the amount verifyAmount compares: Math.floor(amount * rate) when the order
\* side is SELL
ComparedAmount(amount, rate, orderSide) ==
  IF orderSide = SELL
  THEN [num |-> Floor(amount.num * rate.num, amount.den * rate.den), den |-> 1]
  ELSE amount

\* verifyAmount of an amount num / den: the error it throws, or NoError
verifyAmountOf(amount, rate, orderSide, hasLimits) ==
  LET a == ComparedAmount(amount, rate, orderSide) IN
    IF ~hasLimits THEN "CURRENCY_NOT_FOUND"
    ELSE IF Exceeds(a, Limits.maximal) THEN "EXCEED_MAXIMAL_AMOUNT"
    ELSE IF Beneath(a, Limits.minimal) THEN "BENEATH_MINIMAL_AMOUNT"
    ELSE NoError

\* verifyAmount of the whole amount of a request
verifyAmount(q) ==
  verifyAmountOf([num |-> q.invoiceAmount, den |-> 1], q.rate, q.orderSide,
                 q.missing # "limits")

\* a mutant: createReverseSwap does not check that reverse swaps are allowed
ReverseSwapChecks_allowed(q) ==
  FirstError(<<getPair(q), getOrderSide(q), getChainConfig(q), verifyAmount(q)>>)

\* the checks of createReverseSwap before it asks for the fees
ReverseSwapChecks(q) ==
  FirstError(<<reverseSwapsAllowed(q), getPair(q), getOrderSide(q),
               getChainConfig(q), verifyAmount(q)>>)

\* the checks of createSwap before it asks for the fees
SwapChecks(rows, q) ==
  FirstError(<<swapWithInvoice(rows, q.invoice), getPair(q), getOrderSide(q),
               getChainConfig(q), verifyAmount(q)>>)

\* expectedAmount of createSwap
expectedAmountOf(q) ==
  Ceil(q.invoiceAmount * q.rate.num, q.rate.den) + q.baseFee + q.percentageFee

\* a mutant: the fees are added to the amount sent onchain
onchainAmountOf_feesAdded(q) ==
  Floor(q.invoiceAmount * q.rate.num, q.rate.den) + (q.baseFee + q.percentageFee)

\* onchainAmount of createReverseSwap
onchainAmountOf(q) ==
  Floor(q.invoiceAmount * q.rate.num, q.rate.den) - (q.baseFee + q.percentageFee)

\* a row that is not in its table
NoSwapRow(id) == addSwap(id, NoValue, FALSE, NoValue)
NoReverseSwapRow(id) == addReverseSwap(id, NoValue, NoValue, 0)

\* the rows that are in a table
RowsOf(rows) == {id \in DOMAIN rows : rows[id].invoice # NoValue}

\* a mutant: the repository inserts whatever it is given
Rejects_never(rows, otherRows, id, invoice) == FALSE

\* the repository refuses an id that is in use in either table, and an
\* invoice that is in use in its own table
Rejects(rows, otherRows, id, invoice) ==
  \/ id \in RowsOf(rows) \cup RowsOf(otherRows)
  \/ \E o \in RowsOf(rows) : rows[o].invoice = invoice

\* a call that was made, not yet run
Called(request) ==
  [pc |-> "called", request |-> request, error |-> NoError,
   managerCalled |-> FALSE, acceptZeroConf |-> FALSE, id |-> NoSwap,
   zeroConfAmount |-> 0, managerAmount |-> 0, expectedAmount |-> 0,
   onchainAmount |-> 0]

Failed(call, error) == [call EXCEPT !.pc = "failed", !.error = error]

\* a behaviour of the Service has one creation; a swap may be stored already
InitService ==
  /\ \E existing \in BOOLEAN :
       swaps = [id \in Ids |->
                  IF existing /\ id \in Sub
                  THEN addSwap(id, InvoiceOf[id], FALSE, LockupAddressOf[id])
                  ELSE NoSwapRow(id)]
  /\ reverseSwaps = [id \in Ids |-> NoReverseSwapRow(id)]
  /\ queue = [k \in LockKeys |-> <<>>]
  /\ trace = [k \in LockKeys |-> <<>>]
  /\ nextH = [k \in LockKeys |-> 1]
  /\ nEvents = 0
  /\ scope = reverseSwapLock
  /\ pendingSwapInfos = [id \in Sub \cup Rev |-> NoInfo]
  /\ NoStreams
  /\ NoChainClient
  /\ NoStats
  /\ NoWallets
  /\ \E request \in Requests :
       \/ /\ swapCall = [c \in Callers |-> IF c = "c1" THEN Called(request) ELSE NoCall]
          /\ reverseSwapCall = NoCall
       \/ /\ swapCall = [c \in Callers |-> NoCall]
          /\ reverseSwapCall = Called(request)

\* Service.createSwap, from the answer of getSwapByInvoice to the call of
\* feeProvider.getFees
createSwap(c) ==
  /\ swapCall[c].pc = "called"
  /\ LET error == SwapChecks(swaps, swapCall[c].request) IN
       swapCall' = [swapCall EXCEPT
                      ![c] = IF error # NoError THEN Failed(@, error)
                             ELSE [@ EXCEPT !.pc = "fees"]]
  /\ UNCHANGED <<swaps, reverseSwaps, eventVars>>
  /\ UNCHANGED <<pendingSwapInfos, reverseSwapCall, streamVars, farVars>>

\* Service.createSwap, from the answer of getFees to the call of
\* swapManager.createSwap; the rate provider decides acceptZeroConf
createSwapFees(c) ==
  /\ swapCall[c].pc = "fees"
  /\ \E acceptZeroConf \in BOOLEAN :
       LET expectedAmount == expectedAmountOf(swapCall[c].request) IN
         swapCall' = [swapCall EXCEPT
                        ![c] = [@ EXCEPT !.pc = "manager",
                                         !.managerCalled = TRUE,
                                         !.acceptZeroConf = acceptZeroConf,
                                         !.zeroConfAmount = expectedAmount,
                                         !.managerAmount = expectedAmount,
                                         !.expectedAmount = expectedAmount]]
  /\ UNCHANGED <<swaps, reverseSwaps, eventVars>>
  /\ UNCHANGED <<pendingSwapInfos, reverseSwapCall, streamVars, farVars>>

\* Service.createSwap, from the answer of the swap manager to its return:
\* generateId and addSwap
createSwapAdd(c) ==
  /\ swapCall[c].pc = "manager"
  /\ \E id \in Ids :
       LET invoice == swapCall[c].request.invoice IN
         IF Rejects(swaps, reverseSwaps, id, invoice)
         THEN /\ swapCall' = [swapCall EXCEPT ![c] = Failed(@, Rejected)]
              /\ UNCHANGED swaps
         ELSE /\ swaps' = [swaps EXCEPT
                             ![id] = addSwap(id, invoice, swapCall[c].acceptZeroConf,
                                             AddressOf[c])]
              /\ swapCall' = [swapCall EXCEPT
                                ![c] = [@ EXCEPT !.pc = "returned", !.id = id]]
  /\ UNCHANGED <<reverseSwaps, eventVars>>
  /\ UNCHANGED <<pendingSwapInfos, reverseSwapCall, streamVars, farVars>>

\* Service.createReverseSwap up to the call of feeProvider.getFees
createReverseSwap ==
  /\ reverseSwapCall.pc = "called"
  /\ LET error == ReverseSwapChecks(reverseSwapCall.request) IN
       reverseSwapCall' = IF error # NoError THEN Failed(reverseSwapCall, error)
                          ELSE [reverseSwapCall EXCEPT !.pc = "fees"]
  /\ UNCHANGED <<swaps, reverseSwaps, eventVars>>
  /\ UNCHANGED <<pendingSwapInfos, swapCall, streamVars, farVars>>

\* Service.createReverseSwap, from the answer of getFees to the return of
\* swapManager.createReverseSwap: the lockup transaction was sent
createReverseSwapFees ==
  /\ reverseSwapCall.pc = "fees"
  /\ LET onchainAmount == onchainAmountOf(reverseSwapCall.request) IN
       reverseSwapCall' =
         IF onchainAmount < 1
         THEN Failed(reverseSwapCall, "AMOUNT_TOO_LOW")
         ELSE [reverseSwapCall EXCEPT !.pc = "sent", !.managerCalled = TRUE,
                                      !.onchainAmount = onchainAmount]
  /\ UNCHANGED <<swaps, reverseSwaps, eventVars>>
  /\ UNCHANGED <<pendingSwapInfos, swapCall, streamVars, farVars>>

\* the nursery reports the lockup transaction it sent for the reverse swap
NurseryCoinsSent ==
  /\ reverseSwapCall.pc \in {"sent", "returned"}
  /\ nEvents = 0
  /\ CoinsSentEvent(ManagerInvoice, ManagerLockup)

\* Service.createReverseSwap from generateId and addReverseSwap to its return
createReverseSwapAdd ==
  /\ reverseSwapCall.pc = "sent"
  /\ \E id \in Ids :
       IF Rejects(reverseSwaps, swaps, id, ManagerInvoice)
       THEN /\ reverseSwapCall' = Failed(reverseSwapCall, Rejected)
            /\ UNCHANGED reverseSwaps
       ELSE /\ reverseSwaps' = [reverseSwaps EXCEPT
                                  ![id] = addReverseSwap(id, ManagerInvoice, ManagerLockup,
                                                         reverseSwapCall.onchainAmount)]
            /\ reverseSwapCall' = [reverseSwapCall EXCEPT !.pc = "returned", !.id = id]
  /\ UNCHANGED <<swaps, eventVars>>
  /\ UNCHANGED <<pendingSwapInfos, swapCall, streamVars, farVars>>

NextService ==
  \/ \E c \in Callers : createSwap(c)
  \/ \E c \in Callers : createSwapFees(c)
  \/ \E c \in Callers : createSwapAdd(c)
  \/ createReverseSwap
  \/ createReverseSwapFees
  \/ NurseryCoinsSent
  \/ createReverseSwapAdd
  \/ \E k \in LockKeys : HandlerRead(k)
  \/ \E k \in LockKeys : HandlerWrite(k)
  \/ \E k \in LockKeys : HandlerEmit(k)

SpecService == InitService /\ [][NextService]_vars

\* every continuation that is ready runs: the event loop leaves none behind
FairSpecService == SpecService /\ WF_vars(NextService)

\* ------------------------------------------------ concurrent creations

\* two createSwap calls and a createReverseSwap call are in flight, and no
\* swap is stored
InitCreations ==
  /\ swaps = [id \in Ids |-> NoSwapRow(id)]
  /\ reverseSwaps = [id \in Ids |-> NoReverseSwapRow(id)]
  /\ queue = [k \in LockKeys |-> <<>>]
  /\ trace = [k \in LockKeys |-> <<>>]
  /\ nextH = [k \in LockKeys |-> 1]
  /\ nEvents = 0
  /\ scope = reverseSwapLock
  /\ pendingSwapInfos = [id \in Sub \cup Rev |-> NoInfo]
  /\ NoStreams
  /\ NoChainClient
  /\ NoStats
  /\ NoWallets
  /\ swapCall \in [Callers -> {Called(q) : q \in ValidRequests}]
  /\ reverseSwapCall \in {Called(q) : q \in ValidRequests}

NextCreations ==
  \/ \E c \in Callers : createSwap(c)
  \/ \E c \in Callers : createSwapFees(c)
  \/ \E c \in Callers : createSwapAdd(c)
  \/ createReverseSwap
  \/ createReverseSwapFees
  \/ createReverseSwapAdd

SpecCreations == InitCreations /\ [][NextCreations]_vars

\* -------------------------------------------------------- the chain client

\* the transactions sent and the blocks mined in a behaviour
MaxTransactions == 2
MaxBlocks == 2

\* the output scripts of the addresses, as bytes
Scripts == {<<0, 20>>, <<0, 32>>, <<1, 32>>}

\* getHexString: two hex digits per byte
RECURSIVE getHexString(_)
getHexString(bytes) ==
  IF bytes = <<>> THEN <<>>
  ELSE <<Head(bytes) \div 16, Head(bytes) % 16>> \o getHexString(Tail(bytes))

\* the variables the chain client leaves alone
nearVars == <<swaps, reverseSwaps, eventVars, pendingSwapInfos, callVars, streamVars>>

\* no swap, no event, no call and no stream
Quiet ==
  /\ swaps = [s \in Sub |-> addSwap(s, NoValue, FALSE, NoValue)]
  /\ reverseSwaps = [r \in Rev |-> addReverseSwap(r, NoValue, NoValue, 0)]
  /\ queue = [k \in LockKeys |-> <<>>]
  /\ trace = [k \in LockKeys |-> <<>>]
  /\ nextH = [k \in LockKeys |-> 1]
  /\ nEvents = 0
  /\ scope = swapLock
  /\ pendingSwapInfos = [id \in Sub \cup Rev |-> NoInfo]
  /\ swapCall = [c \in Callers |-> NoCall]
  /\ reverseSwapCall = NoCall
  /\ NoStreams

\* the chain client is connected: the node has an empty mempool and nothing
\* to publish, the filter is empty and no event was emitted
InitChain ==
  /\ Quiet
  /\ NoStats
  /\ NoWallets
  /\ node = [height |-> 0, transactions |-> <<>>, blocks |-> <<>>, mempool |-> {},
            rawtx |-> <<>>, rawblock |-> <<>>]
  /\ zmqClient = [relevantOutputs |-> {}, utxos |-> {}]
  /\ chainEvents = <<>>
  /\ feeCall = NoCall

\* the events of the ZmqClient and of the ChainClient
TransactionEvent(tx, confirmed) ==
  [event |-> "transaction", transaction |-> tx, confirmed |-> confirmed, height |-> 0]

BlockEvent(height) ==
  [event |-> "block", transaction |-> NoValue, confirmed |-> FALSE, height |-> height]

\* a mutant: only the confirmed transactions are passed on
listenToZmq_confirmedOnly(events) ==
  SelectSeq(events, LAMBDA e : e.event = "block" \/ e.confirmed)

\* a mutant: only the transactions of the mempool are passed on
listenToZmq_mempoolOnly(events) ==
  SelectSeq(events, LAMBDA e : e.event = "block" \/ ~e.confirmed)

\* a mutant: the blocks are not passed on
listenToZmq_transactions(events) ==
  SelectSeq(events, LAMBDA e : e.event = "transaction")

\* ChainClient.listenToZmq: what the ChainClient emits for the events of its
\* ZmqClient, every block and every transaction as it is
listenToZmq(events) == events

\* a mutant: the first script only is added
addOutputs_first(relevantOutputs, outputScripts) ==
  relevantOutputs \cup {getHexString(CHOOSE s \in outputScripts : TRUE)}

\* the scripts updateOutputFilter adds to relevantOutputs
addOutputs(relevantOutputs, outputScripts) ==
  relevantOutputs \cup {getHexString(s) : s \in outputScripts}

\* ChainClient.updateOutputFilter
updateOutputFilter(outputScripts) ==
  /\ outputScripts # {}
  /\ addOutputs(zmqClient.relevantOutputs, outputScripts) # zmqClient.relevantOutputs
  /\ zmqClient' = [zmqClient EXCEPT
                     !.relevantOutputs = addOutputs(@, outputScripts)]
  /\ UNCHANGED <<node, chainEvents, feeCall, statsCall, serviceVars, nearVars>>

\* ChainClient.sendToAddress: the node accepts the transaction into its
\* mempool and publishes it; watched tells whether the script was in the
\* filter when the transaction was sent
sendToAddress(script) ==
  /\ Len(node.transactions) < MaxTransactions
  /\ LET tx == [id |-> Len(node.transactions) + 1, script |-> script,
                watched |-> getHexString(script) \in zmqClient.relevantOutputs] IN
       node' = [node EXCEPT !.transactions = Append(@, tx), !.mempool = @ \cup {tx},
                            !.rawtx = Append(@, tx)]
  /\ UNCHANGED <<zmqClient, chainEvents, feeCall, statsCall, serviceVars, nearVars>>

\* the transactions of a block, in the order of their ids
RECURSIVE InOrder(_)
InOrder(txs) ==
  IF txs = {} THEN <<>>
  ELSE LET first == CHOOSE tx \in txs : \A other \in txs : tx.id <= other.id IN
         <<first>> \o InOrder(txs \ {first})

\* ChainClient.generate(1): the node mines its mempool into a block and
\* publishes the block
generate ==
  /\ node.height < MaxBlocks
  /\ LET block == [height |-> node.height + 1,
                   transactions |-> InOrder(node.mempool)] IN
       node' = [node EXCEPT !.height = @ + 1, !.mempool = {},
                            !.blocks = Append(@, block),
                            !.rawblock = Append(@, block)]
  /\ UNCHANGED <<zmqClient, chainEvents, feeCall, statsCall, serviceVars, nearVars>>

\* ChainClient.getBlockchainInfo
getBlockchainInfo == [blocks |-> node.height]

\* the ZmqClient: a transaction is relevant when one of its output scripts is
\* in relevantOutputs
Relevant(tx) == getHexString(tx.script) \in zmqClient.relevantOutputs

\* the ZmqClient receives a raw transaction
ZmqRawTx ==
  /\ node.rawtx # <<>>
  /\ LET tx == Head(node.rawtx) IN
       IF Relevant(tx)
       THEN /\ zmqClient' = [zmqClient EXCEPT !.utxos = @ \cup {tx.id}]
            /\ chainEvents' = chainEvents \o listenToZmq(<<TransactionEvent(tx, FALSE)>>)
       ELSE UNCHANGED <<zmqClient, chainEvents>>
  /\ node' = [node EXCEPT !.rawtx = Tail(@)]
  /\ UNCHANGED <<feeCall, statsCall, serviceVars, nearVars>>

\* the events of the relevant transactions of a block that were seen before
RECURSIVE Confirmations(_, _)
Confirmations(txs, utxos) ==
  IF txs = <<>> THEN <<>>
  ELSE (IF Head(txs).id \in utxos THEN <<TransactionEvent(Head(txs), TRUE)>> ELSE <<>>)
         \o Confirmations(Tail(txs), utxos)

\* the ZmqClient receives a raw block
ZmqRawBlock ==
  /\ node.rawblock # <<>>
  /\ LET block == Head(node.rawblock) IN
       /\ chainEvents' = chainEvents
            \o listenToZmq(Confirmations(block.transactions, zmqClient.utxos)
                             \o <<BlockEvent(block.height)>>)
       /\ zmqClient' = [zmqClient EXCEPT
                          !.utxos = @ \ {tx.id : tx \in {block.transactions[i] :
                                                 i \in DOMAIN block.transactions}}]
  /\ node' = [node EXCEPT !.rawblock = Tail(@)]
  /\ UNCHANGED <<feeCall, statsCall, serviceVars, nearVars>>

NextChain ==
  \/ \E outputScripts \in SUBSET Scripts : updateOutputFilter(outputScripts)
  \/ \E script \in Scripts : sendToAddress(script)
  \/ generate
  \/ ZmqRawTx
  \/ ZmqRawBlock

SpecChain == InitChain /\ [][NextChain]_vars

\* ---------------------------------------------------------- estimateFee

\* ChainClient.decimals: the satoshis of a coin
decimals == 100000000

\* the fee rates the node answers with: multiples of FeeStep satoshis per kB,
\* up to MaxFeeSteps of them, and a negative one
FeeStep == 250
MaxFeeSteps == 60

\* the fee rate of an answer in coins per kB, as a fraction whose
\* denominator divides the satoshis of a coin
FeeRates == {[num |-> k, den |-> decimals \div FeeStep] : k \in (-1)..MaxFeeSteps}

\* the fee rate of an answer that has none
NoFeeRate == [num |-> 0, den |-> 0]

\* what the request of estimatesmartfee ends with: an answer with a fee rate,
\* an answer without one, or an error
RpcResults ==
  {[error |-> NoError, feerate |-> f] : f \in FeeRates}
    \cup {[error |-> NoError, feerate |-> NoFeeRate]}
    \cup {[error |-> e, feerate |-> NoFeeRate] :
            e \in {"Method not found", "Connection refused", "Loading block index"}}

\* a mutant: the fee rate is rounded down
Round_down(n, d) == n \div d

\* Math.round of n / d for d > 0: the nearest integer, the greater of two
Round(n, d) == (2 * n + d) \div (2 * d)

Max(a, b) == IF a >= b THEN a ELSE b

\* a fee rate that is there and is not zero
Truthy(feerate) == feerate # NoFeeRate /\ feerate.num # 0

\* the fee per kB in satoshis: response.feerate * ChainClient.decimals
FeePerKb(feerate) == feerate.num * (decimals \div feerate.den)

\* the estimatesmartfee request was sent
InitFees ==
  /\ Quiet
  /\ NoStats
  /\ NoWallets
  /\ node = [height |-> 0, transactions |-> <<>>, blocks |-> <<>>, mempool |-> {},
            rawtx |-> <<>>, rawblock |-> <<>>]
  /\ zmqClient = [relevantOutputs |-> {}, utxos |-> {}]
  /\ chainEvents = <<>>
  /\ feeCall \in {[pc |-> "called", response |-> r, fee |-> 0, thrown |-> NoError] :
                    r \in RpcResults}

\* ChainClient.estimateFee, from the end of the request to its return
estimateFee ==
  /\ feeCall.pc = "called"
  /\ LET response == feeCall.response IN
       feeCall' =
         IF response.error = NoError
         THEN IF Truthy(response.feerate)
              THEN [feeCall EXCEPT !.pc = "returned",
                                   !.fee = Max(Round(FeePerKb(response.feerate), 1000), 2)]
              ELSE [feeCall EXCEPT !.pc = "returned", !.fee = 2]
         ELSE IF response.error = "Method not found"
         THEN [feeCall EXCEPT !.pc = "returned", !.fee = 2]
         ELSE [feeCall EXCEPT !.pc = "threw", !.thrown = response.error]
  /\ UNCHANGED <<node, zmqClient, chainEvents, statsCall, serviceVars, nearVars>>

NextFees == estimateFee

SpecFees == InitFees /\ [][NextFees]_vars

\* ---------------------------------------------------------------- Stats

MaxOnchainAmount == 4
MaxHrpAmount == 4

\* the amount in the human readable part of an invoice: digits and a
\* multiplier, as in lnbcrt123450n1...
Multipliers == {"u", "n"}
StatsInvoices == {[amount |-> 10 * a, multiplier |-> m] :
                    a \in 0..MaxHrpAmount, m \in Multipliers}

\* the amount of an invoice in satoshis: a micro bitcoin is 100 satoshis and
\* a nano bitcoin a tenth of one (123450n is 12345 satoshis)
getInvoiceAmt(invoice) ==
  IF invoice.multiplier = "u" THEN invoice.amount * 100
  ELSE invoice.amount \div 10

getSwapAmount_bySideOnly(isReverse, orderSide, onchainAmount, invoice) ==
  IF orderSide = BUY THEN onchainAmount ELSE getInvoiceAmt(invoice)

\* Stats.getSwapAmount
getSwapAmount(isReverse, orderSide, onchainAmount, invoice) ==
  IF (isReverse /\ orderSide = BUY) \/ (~isReverse /\ orderSide = SELL)
  THEN getInvoiceAmt(invoice)
  ELSE onchainAmount

StatsCalls ==
  {[pc |-> "called", isReverse |-> r, orderSide |-> o, onchainAmount |-> a,
    invoice |-> i, amount |-> 0] :
     r \in BOOLEAN, o \in {BUY, SELL}, a \in 0..MaxOnchainAmount, i \in StatsInvoices}

InitStats ==
  /\ Quiet
  /\ NoChainClient
  /\ statsCall \in StatsCalls
  /\ NoWallets

\* one call of getSwapAmount
getSwapAmountCall ==
  /\ statsCall.pc = "called"
  /\ statsCall' = [statsCall EXCEPT
       !.pc = "returned",
       !.amount = getSwapAmount(statsCall.isReverse, statsCall.orderSide,
                                statsCall.onchainAmount, statsCall.invoice)]
  /\ UNCHANGED <<chainVars, serviceVars, nearVars>>

NextStats == getSwapAmountCall

SpecStats == InitStats /\ [][NextStats]_vars

\* ------------------------------------------------------- the bystanders

MaxStrangerEvents == 2

\* a second swap of each table, which no event of the behaviour is about
OtherSub == {"s2"}
OtherRev == {"r2"}
OtherInvoiceOf == ("s2" :> "i3") @@ ("r2" :> "i4")
OtherLockupAddressOf == ("s2" :> "a2")
OtherLockupOf == ("r2" :> "t4")

\* the invoice and the transaction id of no stored swap
StrangerInvoice == "i0"
StrangerTransaction == "t0"

\* two swaps in each table
InitBystanders ==
  /\ \E z \in BOOLEAN :
       swaps = [s \in Sub \cup OtherSub |->
                  IF s \in Sub THEN addSwap(s, InvoiceOf[s], z, LockupAddressOf[s])
                  ELSE addSwap(s, OtherInvoiceOf[s], z, OtherLockupAddressOf[s])]
  /\ reverseSwaps = [r \in Rev \cup OtherRev |->
                       IF r \in Rev THEN addReverseSwap(r, InvoiceOf[r], LockupOf[r], 1)
                       ELSE addReverseSwap(r, OtherInvoiceOf[r], OtherLockupOf[r], 1)]
  /\ queue = [k \in LockKeys |-> <<>>]
  /\ trace = [k \in LockKeys |-> <<>>]
  /\ nextH = [k \in LockKeys |-> 1]
  /\ nEvents = 0
  /\ scope \in LockKeys
  /\ pendingSwapInfos = [id \in Sub \cup OtherSub \cup Rev \cup OtherRev |-> NoInfo]
  /\ pendingSwapStreams = [id \in Sub \cup OtherSub \cup Rev \cup OtherRev |-> NoStream]
  /\ responses = [res \in Responses |-> NewResponse]
  /\ NoChainClient
  /\ NoStats
  /\ NoWallets
  /\ swapCall = [c \in Callers |-> NoCall]
  /\ reverseSwapCall = NoCall

\* the events of the lnd client and of the nursery that are about no stored
\* swap
StrangerEvent ==
  \/ InvoiceSettledEvent(StrangerInvoice)
  \/ InvoicePaidEvent(StrangerInvoice)
  \/ InvoiceFailedToPayEvent(StrangerInvoice)
  \/ ClaimEvent(StrangerTransaction)
  \/ \E isReverse \in BOOLEAN : ExpirationEvent(StrangerInvoice, isReverse)
  \/ CoinsSentEvent(StrangerInvoice, StrangerTransaction)
  \/ CoinsFailedToSendEvent(StrangerInvoice)
  \/ RefundEvent(StrangerTransaction)

\* the events of the swaps and the events about no swap, up to the bound, and
\* the steps of their handlers
NextBystanders ==
  \/ nEvents < MaxStrangerEvents /\ Next
  \/ nEvents < MaxStrangerEvents /\ StrangerEvent
  \/ \E k \in LockKeys : HandlerRead(k)
  \/ \E k \in LockKeys : HandlerWrite(k)
  \/ \E k \in LockKeys : HandlerEmit(k)

SpecBystanders == InitBystanders /\ [][NextBystanders]_vars

\* ------------------------------------------------------- verifyAmount

MaxHalves == 10

\* the invoice amounts of createReverseSwap, a number of the request: wholes
\* and halves
Amounts == {[num |-> n, den |-> d] : n \in 0..MaxHalves, d \in {1, 2}}

\* createReverseSwap at its call of verifyAmount: the pair and the order side
\* were found
VerifyCalls ==
  {[pc |-> "verify", amount |-> a, rate |-> r, orderSide |-> o, hasLimits |-> l,
    error |-> NoError] :
     a \in Amounts, r \in Rates, o \in {BUY, SELL}, l \in BOOLEAN}

InitAmounts ==
  /\ swaps = [s \in Sub |-> addSwap(s, NoValue, FALSE, NoValue)]
  /\ reverseSwaps = [r \in Rev |-> addReverseSwap(r, NoValue, NoValue, 0)]
  /\ queue = [k \in LockKeys |-> <<>>]
  /\ trace = [k \in LockKeys |-> <<>>]
  /\ nextH = [k \in LockKeys |-> 1]
  /\ nEvents = 0
  /\ scope = reverseSwapLock
  /\ pendingSwapInfos = [id \in Sub \cup Rev |-> NoInfo]
  /\ swapCall = [c \in Callers |-> NoCall]
  /\ reverseSwapCall \in VerifyCalls
  /\ NoStreams
  /\ NoChainClient
  /\ NoStats
  /\ NoWallets

\* this.verifyAmount(pairId, rate, invoiceAmount, side) of createReverseSwap:
\* the call fails with the error, or goes on to ask for the fees
createReverseSwapVerify ==
  /\ reverseSwapCall.pc = "verify"
  /\ LET error == verifyAmountOf(reverseSwapCall.amount, reverseSwapCall.rate,
                                 reverseSwapCall.orderSide, reverseSwapCall.hasLimits) IN
       reverseSwapCall' = [reverseSwapCall EXCEPT
                             !.pc = IF error = NoError THEN "fees" ELSE "failed",
                             !.error = error]
  /\ UNCHANGED <<swaps, reverseSwaps, eventVars>>
  /\ UNCHANGED <<pendingSwapInfos, swapCall, streamVars, farVars>>

NextAmounts == createReverseSwapVerify

SpecAmounts == InitAmounts /\ [][NextAmounts]_vars

\* ------------------------------------------------------- WalletManager

MaxStoredIndex == 2
MaxCurrencies == 2
MaxRuns == 2
StoredHighestUsedIndex == 7

Symbols == {"BTC", "LTC", "DOGE"}

\* `${this.derivationPath}/${index}`: the path m/0/index, as the indexes that
\* follow the m
DerivationPath(index) == <<0, index>>

\* splitDerivationPath(path).sub
splitDerivationPath(path) == [master |-> "m", sub |-> path]

KeyProvider(symbol, index, highestUsedIndex) ==
  [symbol |-> symbol, derivationPath |-> DerivationPath(index),
   highestUsedIndex |-> highestUsedIndex]

\* the key providers earlier runs have stored: one of a symbol, each with a
\* path of its own, and keys that were used
StoredKeyProviders ==
  UNION {{ {KeyProvider(symbol, f[symbol], StoredHighestUsedIndex) : symbol \in S} :
             f \in {g \in [S -> 0..MaxStoredIndex] :
                      \A a \in S, b \in S : g[a] = g[b] => a = b} } :
           S \in SUBSET Symbols}

\* the currencies of the configuration: a symbol may come twice, and a
\* currency may have no lnd client
RECURSIVE ListsUpTo(_, _)
ListsUpTo(S, n) ==
  IF n = 0 THEN {<<>>}
  ELSE ListsUpTo(S, n - 1) \cup {Append(l, x) : l \in ListsUpTo(S, n - 1), x \in S}

CurrencyLists ==
  ListsUpTo({[symbol |-> symbol, lndClient |-> l] : symbol \in Symbols, l \in BOOLEAN},
            MaxCurrencies)

\* getKeyProviderMap: the rows of the key repository by their symbol
getKeyProviderMap(rows) ==
  [symbol \in {row.symbol : row \in rows} |-> CHOOSE row \in rows : row.symbol = symbol]

\* a mutant: the index is taken from the number of key providers
getHighestDepthIndex_count(map, depth) == Cardinality(DOMAIN map) - 1

\* getHighestDepthIndex: the highest index at the depth of the paths of the
\* map, -1 when the map is empty
getHighestDepthIndex(map, depth) ==
  LET indexes == {splitDerivationPath(map[symbol].derivationPath).sub[depth] :
                    symbol \in DOMAIN map} IN
    IF indexes = {} THEN -1
    ELSE CHOOSE index \in indexes : \A other \in indexes : other <= index

\* new Wallet(network, derivationPath, highestUsedIndex, ...)
Wallet(keyProviderInfo) ==
  [derivationPath |-> keyProviderInfo.derivationPath,
   highestUsedIndex |-> keyProviderInfo.highestUsedIndex]

\* this.wallets.set(symbol, wallet)
SetWallet(wallets, symbol, wallet) ==
  [s \in DOMAIN wallets \cup {symbol} |-> IF s = symbol THEN wallet ELSE wallets[s]]

\* a WalletManager was made for a list of currencies; the key repository holds
\* what earlier runs have stored
InitWallets ==
  /\ Quiet
  /\ NoChainClient
  /\ NoStats
  /\ service = NoCall
  /\ keyRepository \in StoredKeyProviders
  /\ walletManager \in
       {[pc |-> "new", currencies |-> currencies, i |-> 1, keyProviderMap |-> <<>>,
         wallets |-> <<>>, error |-> NoError, runs |-> 0] :
          currencies \in CurrencyLists}

\* WalletManager.init up to its loop: the key providers were read
init ==
  /\ walletManager.pc \in {"new", "done", "threw"}
  /\ walletManager.runs < MaxRuns
  /\ walletManager' = [walletManager EXCEPT
       !.pc = "loop", !.i = 1, !.error = NoError, !.runs = @ + 1,
       !.keyProviderMap = getKeyProviderMap(keyRepository)]
  /\ UNCHANGED <<keyRepository, service, chainVars, statsCall, nearVars>>

\* one turn of the loop of WalletManager.init
initCurrency ==
  /\ walletManager.pc = "loop"
  /\ walletManager.i <= Len(walletManager.currencies)
  /\ LET currency == walletManager.currencies[walletManager.i]
         keyProviderMap == walletManager.keyProviderMap
         keyProviderInfo ==
           IF currency.symbol \in DOMAIN keyProviderMap
           THEN keyProviderMap[currency.symbol]
           ELSE KeyProvider(currency.symbol,
                            getHighestDepthIndex(keyProviderMap, 2) + 1, 0) IN
       IF ~currency.lndClient
       THEN /\ walletManager' = [walletManager EXCEPT !.pc = "threw",
                                                      !.error = "LND_NOT_FOUND"]
            /\ UNCHANGED keyRepository
       ELSE /\ keyRepository' = keyRepository \cup {keyProviderInfo}
            /\ walletManager' = [walletManager EXCEPT
                 !.i = @ + 1,
                 !.keyProviderMap =
                    [symbol \in DOMAIN keyProviderMap \cup {currency.symbol} |->
                       IF symbol = currency.symbol THEN keyProviderInfo
                       ELSE keyProviderMap[symbol]],
                 !.wallets = SetWallet(@, currency.symbol, Wallet(keyProviderInfo))]
  /\ UNCHANGED <<service, chainVars, statsCall, nearVars>>

\* the loop is over: init returns
initReturn ==
  /\ walletManager.pc = "loop"
  /\ walletManager.i > Len(walletManager.currencies)
  /\ walletManager' = [walletManager EXCEPT !.pc = "done"]
  /\ UNCHANGED <<keyRepository, service, chainVars, statsCall, nearVars>>

NextWallets ==
  \/ init
  \/ initCurrency
  \/ initReturn

SpecWallets == InitWallets /\ [][NextWallets]_vars

\* ------------------------------------- the operations that take a symbol

Operations == {"getBalance", "getTransaction", "newAddress", "getFeeEstimation",
               "broadcastTransaction", "sendCoins"}

\* the symbols of the configuration; a call may come without a symbol
ConfiguredSymbols == {"BTC", "LTC"}
RequestSymbols == ConfiguredSymbols \cup {NoValue}

\* a call of an operation: the keys of this.currencies and of
\* swapManager.currencies, the arguments, and the requests it has sent
ServiceCalls ==
  {[pc |-> "called", op |-> op, symbol |-> symbol, currencies |-> c,
    swapManagerCurrencies |-> m, satPerVbyte |-> f, scriptType |-> t,
    error |-> NoError, sent |-> {}] :
     op \in Operations, symbol \in RequestSymbols,
     c \in SUBSET ConfiguredSymbols, m \in SUBSET ConfiguredSymbols,
     f \in {0, 2}, t \in BOOLEAN}

\* the calls: satPerVbyte and the address matter to sendCoins only
OperationCalls ==
  {call \in ServiceCalls :
     call.op # "sendCoins" => call.satPerVbyte = 2 /\ call.scriptType}

\* the wallets of a WalletManager whose init has returned
WalletsOf(symbols) ==
  [pc |-> "done", currencies |-> <<>>, i |-> 1, keyProviderMap |-> <<>>,
   wallets |-> [symbol \in symbols |->
                  Wallet(KeyProvider(symbol, IF symbol = "BTC" THEN 0 ELSE 1, 0))],
   error |-> NoError, runs |-> 1]

InitOperations ==
  /\ Quiet
  /\ NoChainClient
  /\ NoStats
  /\ keyRepository = {}
  /\ walletManager \in {WalletsOf(symbols) : symbols \in SUBSET ConfiguredSymbols}
  /\ service \in OperationCalls

\* a request to a client or a wallet of a currency
Request(target, method, symbol) == [target |-> target, method |-> method, symbol |-> symbol]

\* a mutant: the currency is not looked up
getCurrency_found(currencies, symbol) == NoError

\* getCurrency, and the lookups in this.currencies and walletManager.wallets
\* that throw: the error, or NoError
getCurrency(currencies, symbol) ==
  IF symbol \in currencies THEN NoError ELSE "CURRENCY_NOT_FOUND"

Threw(call, error) == [call EXCEPT !.pc = "threw", !.error = error]

Returned(call, sent) == [call EXCEPT !.pc = "returned", !.sent = sent]

\* the inner getBalance: the wallet, and lnd when the currency is known
BalanceRequests(call, symbol) ==
  {Request("wallet", "getBalance", symbol)}
    \cup (IF symbol \in call.currencies
          THEN {Request("lndClient", "listChannels", symbol),
                Request("lndClient", "getWalletBalance", symbol)}
          ELSE {})

Operation(op) ==
  /\ service.pc = "called"
  /\ service.op = op
  /\ UNCHANGED <<keyRepository, walletManager, chainVars, statsCall, nearVars>>

\* Service.getBalance
getBalance ==
  /\ Operation("getBalance")
  /\ LET wallets == DOMAIN walletManager.wallets
         error == getCurrency(wallets, service.symbol) IN
       service' =
         IF service.symbol = NoValue
         THEN Returned(service, UNION {BalanceRequests(service, symbol) : symbol \in wallets})
         ELSE IF error # NoError THEN Threw(service, error)
         ELSE Returned(service, BalanceRequests(service, service.symbol))

\* Service.getTransaction
getTransaction ==
  /\ Operation("getTransaction")
  /\ LET error == getCurrency(service.swapManagerCurrencies, service.symbol) IN
       service' =
         IF error # NoError THEN Threw(service, error)
         ELSE Returned(service, {Request("chainClient", "getRawTransaction", service.symbol)})

\* Service.newAddress
newAddress ==
  /\ Operation("newAddress")
  /\ LET error == getCurrency(DOMAIN walletManager.wallets, service.symbol) IN
       service' =
         IF error # NoError THEN Threw(service, error)
         ELSE Returned(service, {Request("wallet", "getNewAddress", service.symbol)})

\* Service.getFeeEstimation
getFeeEstimation ==
  /\ Operation("getFeeEstimation")
  /\ LET error == getCurrency(service.currencies, service.symbol) IN
       service' =
         IF service.symbol = NoValue
         THEN Returned(service, {Request("chainClient", "estimateFee", symbol) :
                                   symbol \in service.currencies})
         ELSE IF error # NoError THEN Threw(service, error)
         ELSE Returned(service, {Request("chainClient", "estimateFee", service.symbol)})

\* Service.broadcastTransaction
broadcastTransaction ==
  /\ Operation("broadcastTransaction")
  /\ LET error == getCurrency(service.swapManagerCurrencies, service.symbol) IN
       service' =
         IF error # NoError THEN Threw(service, error)
         ELSE Returned(service, {Request("chainClient", "sendRawTransaction", service.symbol)})

\* Service.sendCoins
sendCoins ==
  /\ Operation("sendCoins")
  /\ LET error == FirstError(<<getCurrency(service.swapManagerCurrencies, service.symbol),
                              getCurrency(DOMAIN walletManager.wallets, service.symbol)>>)
         estimate == IF service.satPerVbyte = 0
                     THEN {Request("chainClient", "estimateFee", service.symbol)}
                     ELSE {} IN
       service' =
         IF error # NoError THEN Threw(service, error)
         ELSE IF ~service.scriptType
         THEN [Threw(service, "SCRIPT_TYPE_NOT_FOUND") EXCEPT !.sent = estimate]
         ELSE Returned(service,
                       estimate \cup {Request("wallet", "sendToAddress", service.symbol),
                                      Request("chainClient", "sendRawTransaction",
                                              service.symbol)})

NextOperations ==
  \/ getBalance
  \/ getTransaction
  \/ newAddress
  \/ getFeeEstimation
  \/ broadcastTransaction
  \/ sendCoins

SpecOperations == InitOperations /\ [][NextOperations]_vars

\* ------------------------------------------------------------ the claims

Emits == {"swap.update", "swap.success", "swap.failure"}

\* the tasks that have called lock.acquire and have not returned
Pending == UNION {{<<k, i>> : i \in DOMAIN queue[k]} : k \in LockKeys}

Finished(k, h) == \A i \in DOMAIN queue[k] : queue[k][i].h # h

\* the entries of one kind of one row, in order
EntriesOf(k, op, id) == SelectSeq(trace[k], LAMBDA e : e.op = op /\ e.id = id)

StatusesOf(entries) == [n \in DOMAIN entries |-> entries[n].status]

KeyOf(id) == IF id \in Sub THEN swapLock ELSE reverseSwapLock

\* C1: every swap.update, swap.success and swap.failure is emitted after the
\* repository write of that status to that swap, by the same handler, returned
C1_WriteAhead ==
  \A k \in LockKeys : \A i \in DOMAIN trace[k] :
    trace[k][i].op \in Emits =>
      \E j \in 1..(i - 1) :
        /\ trace[k][j].op = "write"
        /\ trace[k][j].h = trace[k][i].h
        /\ trace[k][j].id = trace[k][i].id
        /\ trace[k][j].status = trace[k][i].status

\* a failed reverse swap: the write of TransactionRefunded, then both emissions
C1_Witness ==
  \E i \in DOMAIN trace[reverseSwapLock] :
    /\ trace[reverseSwapLock][i].op = "swap.failure"
    /\ trace[reverseSwapLock][i].status = TransactionRefunded

\* the documented order of the statuses; a failure status takes the place of
\* the status it stands in for, and SwapExpired, TransactionRefunded come last
Rank(status) ==
  CASE status \in {NoStatus, SwapCreated} -> 0
    [] status \in {TransactionMempool, TransactionFailed} -> 1
    [] status = TransactionConfirmed -> 2
    [] status \in {InvoicePaid, InvoiceFailedToPay} -> 4
    [] status \in {TransactionClaimed, InvoiceSettled} -> 5
    [] status = SwapExpired -> 6
    [] status = TransactionRefunded -> 7

Forward(from, to) == to = SwapExpired \/ Rank(to) >= Rank(from)

\* C2: the persisted status of a swap only moves forward along the documented
\* order, but for the override to SwapExpired
C2_Monotone ==
  \A id \in Sub \cup Rev :
    LET w == EntriesOf(KeyOf(id), "write", id) IN
      \A n \in 1..(Len(w) - 1) : Forward(w[n].status, w[n + 1].status)

\* C3: no two handlers are between their read and their write of the same
\* swap, and a handler that has read holds the status the repository holds
C3_MutualExclusion ==
  /\ \A a \in Pending, b \in Pending :
       LET t == queue[a[1]][a[2]]
           u == queue[b[1]][b[2]] IN
         (a # b /\ t.pc = "read" /\ u.pc = "read") => t.id # u.id
  /\ \A a \in Pending :
       LET t == queue[a[1]][a[2]] IN
         t.pc = "read" => Row(t, t.id).status = t.seen

\* a transaction handler has read the swap while an expiration of the same
\* swap waits for the lock
C3_Witness ==
  \E i \in DOMAIN queue[swapLock], j \in DOMAIN queue[swapLock] :
    /\ queue[swapLock][i].kind = "transaction"
    /\ queue[swapLock][i].pc = "read"
    /\ queue[swapLock][j].kind = "expiration"
    /\ queue[swapLock][j].pc = "wait"

\* C4: the handlers of one swap run in the order the events arrived: what a
\* handler does comes before the read of every handler that arrived later
C4_ArrivalOrder ==
  \A k \in LockKeys :
    /\ \A i \in DOMAIN trace[k], j \in DOMAIN trace[k] :
         ( /\ trace[k][j].op = "read"
           /\ trace[k][j].id # NoSwap
           /\ trace[k][i].id = trace[k][j].id
           /\ trace[k][i].h < trace[k][j].h ) => i < j
    /\ \A i \in DOMAIN queue[k], j \in DOMAIN queue[k] :
         (queue[k][j].pc # "wait" /\ i # j) => queue[k][j].h < queue[k][i].h

\* the second output of a confirmed lockup transaction of the reverse swap is
\* read after the swap.update of the first, and an expiration after both
C4_Witness ==
  \E i \in DOMAIN trace[reverseSwapLock], j \in DOMAIN trace[reverseSwapLock],
     l \in DOMAIN trace[reverseSwapLock] :
    /\ i < j /\ j < l
    /\ trace[reverseSwapLock][i].op = "swap.update"
    /\ trace[reverseSwapLock][i].kind = "transaction"
    /\ trace[reverseSwapLock][j].op = "read"
    /\ trace[reverseSwapLock][j].kind = "transaction"
    /\ trace[reverseSwapLock][j].id = trace[reverseSwapLock][i].id
    /\ trace[reverseSwapLock][j].h = trace[reverseSwapLock][i].h + 1
    /\ trace[reverseSwapLock][l].op = "read"
    /\ trace[reverseSwapLock][l].kind = "expiration"
    /\ trace[reverseSwapLock][l].id = trace[reverseSwapLock][i].id

\* what the handler of an unconfirmed, underfunded lockup transaction of a
\* swap that accepts zero-conf has done
UnderfundedZeroConf(e) ==
  /\ e.kind = "transaction"
  /\ e.id \in Sub
  /\ ~e.confirmed
  /\ e.value < ExpectedAmount
  /\ swaps[e.id].acceptZeroConf

\* C5 as stated: no swap.update is emitted for an unconfirmed lockup
\* transaction that pays less than expectedAmount to a zero-conf swap
C5_NoUpdate ==
  \A i \in DOMAIN trace[swapLock] :
    UnderfundedZeroConf(trace[swapLock][i]) => trace[swapLock][i].op # "swap.update"

\* C5 as amended: the only event the handler of such a transaction emits is
\* one swap.update TransactionMempool: the swap is never reported confirmed
C5_OnlyMempool ==
  \A i \in DOMAIN trace[swapLock] :
    LET e == trace[swapLock][i] IN
      (UnderfundedZeroConf(e) /\ e.op \in Emits) =>
        /\ e.op = "swap.update"
        /\ e.status = TransactionMempool
        /\ \A j \in DOMAIN trace[swapLock] :
             (trace[swapLock][j].op \in Emits /\ trace[swapLock][j].h = e.h) => j = i

C5_Witness ==
  \E i \in DOMAIN trace[swapLock] :
    /\ UnderfundedZeroConf(trace[swapLock][i])
    /\ trace[swapLock][i].op = "swap.update"

\* C6: the handler of the first unconfirmed lockup transaction that pays at
\* least expectedAmount to a swap that accepts zero-conf emits a swap.update
\* TransactionConfirmed
C6_ZeroConfConfirmed ==
  \A i \in DOMAIN trace[swapLock] :
    LET e == trace[swapLock][i] IN
      ( /\ e.op = "read" /\ e.kind = "transaction" /\ e.id \in Sub
        /\ ~e.confirmed /\ e.value >= ExpectedAmount /\ e.status = NoStatus
        /\ swaps[e.id].acceptZeroConf
        /\ Finished(swapLock, e.h) ) =>
        \E j \in DOMAIN trace[swapLock] :
          /\ trace[swapLock][j].op = "swap.update"
          /\ trace[swapLock][j].h = e.h
          /\ trace[swapLock][j].status = TransactionConfirmed

\* C7: the handler of the first unconfirmed lockup transaction of a swap emits
\* a swap.update TransactionMempool, whether or not the swap accepts zero-conf
C7_MempoolOnFirstObservation ==
  \A i \in DOMAIN trace[swapLock] :
    LET e == trace[swapLock][i] IN
      ( /\ e.op = "read" /\ e.kind = "transaction" /\ e.id \in Sub
        /\ ~e.confirmed /\ e.status = NoStatus
        /\ Finished(swapLock, e.h) ) =>
        \E j \in DOMAIN trace[swapLock] :
          /\ trace[swapLock][j].op = "swap.update"
          /\ trace[swapLock][j].h = e.h
          /\ trace[swapLock][j].status = TransactionMempool

\* the events a swap has seen are lockup transactions that pay less than
\* expectedAmount, and expirations
OnlyUnderfunded(s) ==
  LET r == EntriesOf(swapLock, "read", s) IN
    \A n \in DOMAIN r :
      \/ r[n].kind = "expiration"
      \/ r[n].kind = "transaction" /\ r[n].value < ExpectedAmount

\* C8: a swap whose lockup transactions all pay less than expectedAmount is
\* never reported as TransactionConfirmed, InvoicePaid or TransactionClaimed
C8_UnderfundedNeverProgresses ==
  \A s \in Sub :
    OnlyUnderfunded(s) =>
      \A i \in DOMAIN trace[swapLock] :
        (trace[swapLock][i].op = "swap.update" /\ trace[swapLock][i].id = s) =>
          trace[swapLock][i].status \in {TransactionMempool, SwapExpired}

\* C9: once the handlers have returned, the statuses written for a swap are
\* the statuses of its swap.update events, in the same order
C9_EveryTransitionEmitted ==
  \A id \in Sub \cup Rev :
    queue[KeyOf(id)] = <<>> =>
      StatusesOf(EntriesOf(KeyOf(id), "write", id)) =
        StatusesOf(EntriesOf(KeyOf(id), "swap.update", id))

\* the events a swap has seen are lockup transactions followed by expirations
OnlyTransactionsThenExpirations(s) ==
  LET r == EntriesOf(swapLock, "read", s) IN
    /\ \A n \in DOMAIN r : r[n].kind \in {"transaction", "expiration"}
    /\ \A n \in DOMAIN r, m \in DOMAIN r :
         (r[n].kind = "expiration" /\ r[m].kind = "transaction") => m < n

\* the status a set of transaction and expiration events leads to
StatusOfEvents(s) ==
  LET r == EntriesOf(swapLock, "read", s) IN
    IF \E n \in DOMAIN r : r[n].kind = "expiration" THEN SwapExpired
    ELSE IF \E n \in DOMAIN r : r[n].confirmed THEN TransactionConfirmed
    ELSE IF r # <<>> THEN TransactionMempool
    ELSE NoStatus

\* C10: once the handlers have returned, the status of a swap that has seen
\* lockup transactions and then expirations depends on which events it has
\* seen, not on their order
C10_Confluence ==
  \A s \in Sub :
    (queue[swapLock] = <<>> /\ OnlyTransactionsThenExpirations(s)) =>
      swaps[s].status = StatusOfEvents(s)

\* the confirmed transaction was delivered before the unconfirmed one
C10_Witness ==
  \E s \in Sub :
    LET r == EntriesOf(swapLock, "read", s) IN
      /\ queue[swapLock] = <<>>
      /\ OnlyTransactionsThenExpirations(s)
      /\ Len(r) = 2
      /\ r[1].kind = "transaction" /\ r[1].confirmed
      /\ r[2].kind = "transaction" /\ ~r[2].confirmed

\* the status the repository holds for a swap, as a message, or NoInfo
Persisted(id) ==
  LET row == IF id \in Sub THEN swaps[id] ELSE reverseSwaps[id] IN
    IF row.status # NoStatus THEN Message(row.status, NoValue) ELSE NoInfo

\* C11 as stated: after a crash and Controller.init the status held for a swap
\* is the last status persisted for it, and what swapStatus returns for a swap
\* is what it returned before the crash
C11_SameBeforeAndAfter ==
  [][Restart => \A id \in Sub \cup Rev :
                  /\ swapStatus(id)'.body.status = Persisted(id).status
                  /\ swapStatus(id)'.body.status = swapStatus(id).body.status]_vars

\* C11 as amended: after a crash and Controller.init the status held for a
\* swap is the last status persisted for it, and a swap without a persisted
\* status has no entry
C11_RoundTrip ==
  [][Restart => \A id \in Sub \cup Rev :
                  swapStatus(id)'.body.status = Persisted(id).status]_vars

\* after a restart swapStatus returns TransactionMempool for a swap that never
\* had a swap.update: the lockup of a swap that does not accept zero-conf
C11_Witness ==
  /\ swapStatus("s1") = [code |-> 200, body |-> Message(TransactionMempool, NoValue)]
  /\ EntriesOf(swapLock, "swap.update", "s1") = <<>>
  /\ queue[swapLock] = <<>>

\* the handler h of lock k found a swap whose status was one of statuses
ReadIn(k, h, statuses) ==
  \E j \in DOMAIN trace[k] :
    /\ trace[k][j].op = "read"
    /\ trace[k][j].h = h
    /\ trace[k][j].id # NoSwap
    /\ trace[k][j].status \in statuses

\* the statuses of a reverse swap that is not live any more
Settled == {TransactionFailed, SwapExpired, TransactionRefunded, InvoiceSettled}

\* C12: an invoice.settled event writes and emits only when it found a reverse
\* swap with that invoice whose status is none of TransactionFailed,
\* SwapExpired, TransactionRefunded and InvoiceSettled
C12_SettledOnlyWhenLive ==
  \A i \in DOMAIN trace[reverseSwapLock] :
    LET e == trace[reverseSwapLock][i] IN
      (e.kind = "invoice.settled" /\ e.op # "read") =>
        /\ ReadIn(reverseSwapLock, e.h, {TransactionMempool, TransactionConfirmed,
                                          InvoicePaid, NoStatus})
        /\ ~ReadIn(reverseSwapLock, e.h, Settled)

\* the statuses of a failed swap of the table of lock k
FailureStatuses(k) ==
  IF k = swapLock THEN {InvoiceFailedToPay, SwapExpired}
  ELSE {TransactionFailed, SwapExpired, TransactionRefunded}

\* C13: once the handler that moved a swap to a failure status has returned,
\* it has emitted swap.update with that status and, directly after it,
\* swap.failure for the same swap, isReverse telling the table of the swap
C13_FailureEmitted ==
  \A k \in LockKeys : \A w \in DOMAIN trace[k] :
    ( /\ trace[k][w].op = "write"
      /\ trace[k][w].status \in FailureStatuses(k)
      /\ Finished(k, trace[k][w].h) ) =>
      \E i \in DOMAIN trace[k] :
        /\ w < i /\ i + 1 \in DOMAIN trace[k]
        /\ trace[k][i].op = "swap.update"
        /\ trace[k][i].h = trace[k][w].h
        /\ trace[k][i].id = trace[k][w].id
        /\ trace[k][i].status = trace[k][w].status
        /\ trace[k][i + 1].op = "swap.failure"
        /\ trace[k][i + 1].id = trace[k][w].id
        /\ trace[k][i + 1].isReverse = (k = reverseSwapLock)

\* a submarine swap whose invoice could not be paid, and that expired later
C13_Witness ==
  \E i \in DOMAIN trace[swapLock], j \in DOMAIN trace[swapLock] :
    /\ i < j
    /\ trace[swapLock][i].op = "swap.failure"
    /\ trace[swapLock][i].status = InvoiceFailedToPay
    /\ ~trace[swapLock][i].isReverse
    /\ trace[swapLock][j].op = "swap.failure"
    /\ trace[swapLock][j].status = SwapExpired

\* C14: the invoice.paid handler writes and emits InvoicePaid only for a swap
\* whose status is none of unset, SwapExpired, InvoiceFailedToPay and
\* TransactionClaimed
C14_PaidOnlyAfterLockup ==
  \A i \in DOMAIN trace[swapLock] :
    LET e == trace[swapLock][i] IN
      (e.kind = "invoice.paid" /\ e.op # "read") =>
        ~ReadIn(swapLock, e.h, {NoStatus, SwapExpired, InvoiceFailedToPay,
                                TransactionClaimed})

\* the nursery reported invoice.paid for the swap before the claim handled by h
PaidBeforeClaim(s, h) ==
  \E j \in DOMAIN trace[swapLock] :
    /\ trace[swapLock][j].op = "read"
    /\ trace[swapLock][j].kind = "invoice.paid"
    /\ trace[swapLock][j].id = s
    /\ trace[swapLock][j].h < h

C17_RefundAfterExpiry ==
  \A i \in DOMAIN trace[reverseSwapLock] :
    LET e == trace[reverseSwapLock][i] IN
      (e.kind = "refund" /\ e.op # "read") =>
        /\ \E j \in 1..(i - 1) :
             /\ trace[reverseSwapLock][j].op = "write"
             /\ trace[reverseSwapLock][j].id = e.id
             /\ trace[reverseSwapLock][j].status = SwapExpired
        /\ ~ReadIn(reverseSwapLock, e.h, {InvoiceSettled})

\* C18: no swap.update TransactionMempool of a submarine swap comes after a
\* swap.update TransactionConfirmed of that swap
C18_NoMempoolAfterConfirmed ==
  \A i \in DOMAIN trace[swapLock], j \in DOMAIN trace[swapLock] :
    ( /\ i < j
      /\ trace[swapLock][i].op = "swap.update"
      /\ trace[swapLock][i].status = TransactionConfirmed
      /\ trace[swapLock][j].op = "swap.update"
      /\ trace[swapLock][j].id = trace[swapLock][i].id )
    => trace[swapLock][j].status # TransactionMempool

\* the unconfirmed transaction is delivered again after the swap was reported
\* confirmed, to a swap that accepts zero-conf, and its handler has returned
C18_Witness ==
  \E i \in DOMAIN trace[swapLock], j \in DOMAIN trace[swapLock] :
    /\ i < j
    /\ trace[swapLock][i].op = "swap.update"
    /\ trace[swapLock][i].status = TransactionConfirmed
    /\ trace[swapLock][j].op = "read"
    /\ trace[swapLock][j].kind = "transaction"
    /\ ~trace[swapLock][j].confirmed
    /\ trace[swapLock][j].id = trace[swapLock][i].id
    /\ swaps[trace[swapLock][j].id].acceptZeroConf
    /\ Finished(swapLock, trace[swapLock][j].h)

\* the event of the handler t was delivered before, and applied to the same swap
Duplicate(k, t) ==
  \E i \in DOMAIN trace[k] :
    /\ trace[k][i].op = "write"
    /\ trace[k][i].h < t.h
    /\ trace[k][i].id = t.id
    /\ trace[k][i].kind = t.kind
    /\ trace[k][i].arg = t.arg
    /\ trace[k][i].txid = t.txid
    /\ trace[k][i].value = t.value
    /\ trace[k][i].confirmed = t.confirmed

\* C19: the write of a handler whose event was delivered and applied before
\* leaves the status and the side data of every swap as they are
C19_DuplicateIsNoOp ==
  [][\A k \in LockKeys :
       (HandlerWrite(k) /\ Duplicate(k, Head(queue[k])))
         => UNCHANGED <<swaps, reverseSwaps>>]_vars

\* createReverseSwap has returned successfully
ReverseSwapCreated == reverseSwapCall.pc = "returned"

\* a swap.update TransactionMempool with the lockup transaction was emitted
MempoolEmitted(r) ==
  \E i \in DOMAIN trace[reverseSwapLock] :
    /\ trace[reverseSwapLock][i].op = "swap.update"
    /\ trace[reverseSwapLock][i].id = r
    /\ trace[reverseSwapLock][i].status = TransactionMempool
    /\ trace[reverseSwapLock][i].txid = ManagerLockup

\* C16: after createReverseSwap has returned successfully, a swap.update
\* TransactionMempool with the lockup transaction is eventually emitted for
\* the new reverse swap
C16_StartsAtMempool ==
  \A r \in Ids : (ReverseSwapCreated /\ reverseSwapCall.id = r) ~> MempoolEmitted(r)

\* C20: the expectedAmount that createSwap returns, passes to the swap manager
\* and asks the zero-conf decision for is the least integer that is no less
\* than invoiceAmount * rate, plus baseFee and percentageFee
C20_ExpectedAmount ==
  \A caller \in Callers :
    swapCall[caller].pc = "returned" =>
      LET c == swapCall[caller].request
          x == swapCall[caller].expectedAmount - c.baseFee - c.percentageFee IN
        /\ x * c.rate.den >= c.invoiceAmount * c.rate.num
        /\ (x - 1) * c.rate.den < c.invoiceAmount * c.rate.num
        /\ swapCall[caller].managerAmount = swapCall[caller].expectedAmount
        /\ swapCall[caller].zeroConfAmount = swapCall[caller].expectedAmount

\* a swap whose invoiceAmount * rate is no integer: 3 * 1/2, with both fees
C20_Witness ==
  \E caller \in Callers :
    /\ swapCall[caller].pc = "returned"
    /\ (swapCall[caller].request.invoiceAmount * swapCall[caller].request.rate.num)
         % swapCall[caller].request.rate.den # 0
    /\ swapCall[caller].request.baseFee > 0
    /\ swapCall[caller].request.percentageFee > 0
    /\ swapCall[caller].expectedAmount = 4

\* the request names a pair, a side and a currency the Service knows, and its
\* amount is within the limits of the pair
PassesChecks(q) ==
  /\ q.missing = NoValue
  /\ q.orderSide \in {BUY, SELL}
  /\ LET n == IF q.orderSide = SELL THEN q.invoiceAmount * q.rate.num
               ELSE q.invoiceAmount * q.rate.den IN
       /\ n >= Limits.minimal * q.rate.den
       /\ n < (Limits.maximal + 1) * q.rate.den

\* floor(invoiceAmount * rate) - (baseFee + percentageFee) is below 1
BelowOne(q) == q.invoiceAmount * q.rate.num < (1 + q.baseFee + q.percentageFee) * q.rate.den

\* x is floor(invoiceAmount * rate) - (baseFee + percentageFee)
IsOnchainAmount(q, x) ==
  LET f == x + q.baseFee + q.percentageFee IN
    /\ f * q.rate.den <= q.invoiceAmount * q.rate.num
    /\ (f + 1) * q.rate.den > q.invoiceAmount * q.rate.num

\* the swap manager was asked for a reverse swap with the amount x, and the
\* reverse swaps stored hold it
CreatedWith(x) ==
  /\ reverseSwapCall.managerCalled
  /\ x >= 1
  /\ IsOnchainAmount(reverseSwapCall.request, x)
  /\ \A r \in RowsOf(reverseSwaps) : reverseSwaps[r].onchainAmount = x

\* the call failed with the error before the swap manager was asked, and no
\* reverse swap is stored
FailedEarly(errors) ==
  /\ reverseSwapCall.pc = "failed"
  /\ reverseSwapCall.error \in errors
  /\ ~reverseSwapCall.managerCalled
  /\ RowsOf(reverseSwaps) = {}

\* C21 as stated: a reverse swap is created with onchainAmount =
\* floor(invoiceAmount * rate) - (baseFee + percentageFee) >= 1, and whenever
\* that value is below 1 the call fails with AMOUNT_TOO_LOW, the swap manager
\* sends no lockup transaction and no reverse swap is added
C21_OnchainAmount ==
  /\ reverseSwapCall.pc \in {"sent", "returned"}
       => CreatedWith(reverseSwapCall.onchainAmount)
  /\ (reverseSwapCall.pc \notin {"none", "called", "fees"}
        /\ BelowOne(reverseSwapCall.request))
       => FailedEarly({"AMOUNT_TOO_LOW"})

\* C21, amended: a reverse swap is created with onchainAmount =
\* floor(invoiceAmount * rate) - (baseFee + percentageFee) >= 1; when that
\* value is below 1 no lockup transaction is sent and no reverse swap is
\* added, and the call fails with AMOUNT_TOO_LOW if the request passes the
\* checks made before the fees are known, with the error of the first check
\* that fails otherwise
C21_OnchainAmountOfValidRequest ==
  /\ reverseSwapCall.pc \in {"sent", "returned"}
       => CreatedWith(reverseSwapCall.onchainAmount)
  /\ (reverseSwapCall.pc \notin {"none", "called", "fees"}
        /\ BelowOne(reverseSwapCall.request))
       => IF PassesChecks(reverseSwapCall.request)
          THEN FailedEarly({"AMOUNT_TOO_LOW"})
          ELSE FailedEarly({"REVERSE_SWAPS_DISABLED", "PAIR_NOT_FOUND",
                            "ORDER_SIDE_NOT_FOUND", "CURRENCY_NOT_FOUND",
                            "EXCEED_MAXIMAL_AMOUNT", "BENEATH_MINIMAL_AMOUNT"})

\* a request within the limits whose fees leave less than 1 fails with
\* AMOUNT_TOO_LOW
C21_Witness ==
  /\ reverseSwapCall.pc = "failed"
  /\ PassesChecks(reverseSwapCall.request)
  /\ BelowOne(reverseSwapCall.request)
  /\ reverseSwapCall.request.invoiceAmount * reverseSwapCall.request.rate.num
       >= reverseSwapCall.request.rate.den
  /\ FailedEarly({"AMOUNT_TOO_LOW"})

\* a reverse swap was stored, of a request with fees and a rate that does not
\* divide the amount
C21_Created ==
  /\ reverseSwapCall.pc = "returned"
  /\ reverseSwapCall.request.baseFee + reverseSwapCall.request.percentageFee > 0
  /\ (reverseSwapCall.request.invoiceAmount * reverseSwapCall.request.rate.num)
       % reverseSwapCall.request.rate.den # 0
  /\ RowsOf(reverseSwaps) # {}

\* the stored swaps with the invoice
SwapsWith(rows, invoice) == {s \in RowsOf(rows) : rows[s].invoice = invoice}

\* C22: whatever the interleaving of the createSwap calls, the repository
\* holds at most one swap per invoice, and a call that is made while a swap
\* with its invoice is stored fails with SWAP_WITH_INVOICE_EXISTS
C22_OneSwapPerInvoice ==
  [][/\ \A c \in Callers :
          Cardinality(SwapsWith(swaps', swapCall[c].request.invoice)) <= 1
     /\ \A c \in Callers :
          (createSwap(c) /\ SwapsWith(swaps, swapCall[c].request.invoice) # {})
            => /\ swapCall'[c].pc = "failed"
               /\ swapCall'[c].error = "SWAP_WITH_INVOICE_EXISTS"]_vars

\* two calls with the same invoice both found no swap and both asked the swap
\* manager; one of them stored its swap and the insert of the other was refused
C22_Witness ==
  \E c \in Callers, d \in Callers :
    /\ swapCall[c].request.invoice = swapCall[d].request.invoice
    /\ swapCall[c].pc = "returned"
    /\ swapCall[d].pc = "failed"
    /\ swapCall[d].managerCalled
    /\ swapCall[d].error = Rejected
    /\ Cardinality(SwapsWith(swaps, swapCall[c].request.invoice)) = 1

\* a call was made after a swap with its invoice was stored
C22_Sequential ==
  \E c \in Callers, d \in Callers :
    /\ swapCall[c].request.invoice = swapCall[d].request.invoice
    /\ swapCall[c].pc = "returned"
    /\ swapCall[d].error = "SWAP_WITH_INVOICE_EXISTS"

\* the call has just returned the id of the swap it stored
Returns(call) == call.pc # "returned" /\ call'.pc = "returned"

\* C29: no id is in use for a swap and for a reverse swap at once, a stored
\* swap is never replaced by a creation, and a creation returns only an id
\* that was not in use
C29_UniqueIds ==
  [][/\ RowsOf(swaps') \cap RowsOf(reverseSwaps') = {}
     /\ \A id \in RowsOf(swaps) : swaps'[id] = swaps[id]
     /\ \A id \in RowsOf(reverseSwaps) : reverseSwaps'[id] = reverseSwaps[id]
     /\ \A c \in Callers :
          Returns(swapCall[c])
            => swapCall'[c].id \notin RowsOf(swaps) \cup RowsOf(reverseSwaps)
     /\ Returns(reverseSwapCall)
          => reverseSwapCall'.id \notin RowsOf(swaps) \cup RowsOf(reverseSwaps)]_vars

\* both ids are in use and the creation of the reverse swap, whose invoice is
\* new, was refused: whatever id it generated was taken
C29_Witness ==
  /\ reverseSwapCall.pc = "failed"
  /\ reverseSwapCall.error = Rejected
  /\ RowsOf(swaps) = Ids
  /\ RowsOf(reverseSwaps) = {}

\* the errors of the validation of a creation
ValidationErrors ==
  {"PAIR_NOT_FOUND", "ORDER_SIDE_NOT_FOUND", "CURRENCY_NOT_FOUND",
   "EXCEED_MAXIMAL_AMOUNT", "BENEATH_MINIMAL_AMOUNT", "AMOUNT_TOO_LOW",
   "SWAP_WITH_INVOICE_EXISTS", "REVERSE_SWAPS_DISABLED"}

\* the step makes the call fail with an error of the validation
FailsValidation(call) ==
  /\ call.pc \notin {"none", "failed"}
  /\ call'.pc = "failed"
  /\ call'.error \in ValidationErrors

\* the call has not asked the swap manager and has not stored a swap
NothingDone(call) == ~call.managerCalled /\ call.id = NoSwap

\* C23: a step that makes createSwap or createReverseSwap fail with an error
\* of the validation leaves both repositories as they are, the call has not
\* asked the swap manager and has stored nothing; and the swap manager is
\* asked only for a request that passes the checks
C23_ValidationBeforePersistence ==
  [][/\ \A c \in Callers :
          /\ FailsValidation(swapCall[c])
               => NothingDone(swapCall'[c]) /\ UNCHANGED <<swaps, reverseSwaps>>
          /\ (swapCall'[c].pc # "none" /\ swapCall'[c].managerCalled)
               => LET q == swapCall'[c].request IN
                    PassesChecks([q EXCEPT !.missing =
                                    IF @ = "allowReverseSwaps" THEN NoValue ELSE @])
     /\ FailsValidation(reverseSwapCall)
          => NothingDone(reverseSwapCall') /\ UNCHANGED <<swaps, reverseSwaps>>
     /\ (reverseSwapCall'.pc # "none" /\ reverseSwapCall'.managerCalled)
          => PassesChecks(reverseSwapCall'.request)]_vars

\* createReverseSwap was refused because reverse swaps are disabled, and
\* nothing was stored
C23_Witness ==
  /\ reverseSwapCall.pc = "failed"
  /\ reverseSwapCall.error = "REVERSE_SWAPS_DISABLED"
  /\ NothingDone(reverseSwapCall)
  /\ RowsOf(reverseSwaps) = {}

\* the swap.update events the step emits for the swap, in emission order
NewUpdates(id) ==
  LET k == KeyOf(id)
      new == SubSeq(trace'[k], Len(trace[k]) + 1, Len(trace'[k])) IN
    SelectSeq(new, LAMBDA e : e.op = "swap.update" /\ e.id = id)

\* the messages of the events
RECURSIVE MessagesOf(_)
MessagesOf(entries) ==
  IF entries = <<>> THEN <<>>
  ELSE <<MessageOf(Head(entries))>> \o MessagesOf(Tail(entries))

\* what swapStatus answers when the message is the last one known
Answer(message) ==
  IF message = NoInfo THEN [code |-> 404, body |-> NoInfo]
  ELSE [code |-> 200, body |-> message]

\* the open responses of the requests that asked for the stream of the swap
StreamsOf(id) ==
  {res \in Responses : responses[res].state = "open" /\ responses[res].id = id}

\* swapStatus answers 404 before any event; a step that emits swap.update
\* events for the swap makes it answer the message of the last of them, a
\* restart makes it answer the status the repository holds, and no other
\* step changes its answer
StatusFollows(id) ==
  /\ (nEvents = 0 /\ trace[KeyOf(id)] = <<>>) => swapStatus(id) = Answer(NoInfo)
  /\ swapStatus(id)' =
       IF NewUpdates(id) # <<>>
       THEN Answer(MessageOf(NewUpdates(id)[Len(NewUpdates(id))]))
       ELSE IF Restart THEN Answer(Persisted(id))
       ELSE swapStatus(id)

\* C24: swapStatus answers the message of the last swap.update of the swap
\* (the status loaded by init after a restart, 404 when there is none), and
\* the swap.update events a step emits for a swap are appended, in emission
\* order, to what was written to the one stream that is open for the swap,
\* as long as it stays open
C24_EveryUpdateWritten ==
  [][\A id \in Sub \cup Rev :
       /\ StatusFollows(id)
       /\ \A res \in Responses :
            (StreamsOf(id) = {res} /\ responses'[res].state = "open")
              => responses'[res].written
                   = responses[res].written \o MessagesOf(NewUpdates(id))]_vars

\* the same with the stream read off the Controller's map: the swap.update
\* events a step emits for a swap are appended, in emission order, to what
\* was written to the response pendingSwapStreams holds for the swap, as long
\* as it stays open
C24_FaithfulStream ==
  [][\A id \in Sub \cup Rev :
       /\ StatusFollows(id)
       /\ (pendingSwapStreams[id] # NoStream
             /\ responses'[pendingSwapStreams[id]].state = "open")
            => responses'[pendingSwapStreams[id]].written
                 = responses[pendingSwapStreams[id]].written \o MessagesOf(NewUpdates(id))]_vars

\* a stream was opened for a reverse swap before its lockup transaction was
\* sent; the two updates that followed were written to it in their order,
\* and swapStatus answers the second
C24_Witness ==
  \E res \in Responses :
    /\ responses[res].state = "open"
    /\ pendingSwapStreams[responses[res].id] = res
    /\ Len(responses[res].written) = 2
    /\ responses[res].written[1].status = TransactionMempool
    /\ responses[res].written[2].status = TransactionConfirmed
    /\ swapStatus(responses[res].id) = Answer(responses[res].written[2])

\* the positions of the event among the events the ChainClient emitted
Positions(event) == {i \in DOMAIN chainEvents : chainEvents[i] = event}

\* the transactions the node has published and the ZmqClient has received
Received == {node.transactions[i] : i \in 1..(Len(node.transactions) - Len(node.rawtx))}

\* C25: for every transaction the node accepted whose output script was in
\* the filter when it was sent, the ChainClient emits one transaction event
\* with confirmed = false once the transaction is received: as many events
\* as transactions, none lost
C25_MempoolEvents ==
  /\ \A tx \in Received :
       tx.watched => Cardinality(Positions(TransactionEvent(tx, FALSE))) = 1
  /\ Cardinality({i \in DOMAIN chainEvents :
                    /\ chainEvents[i].event = "transaction"
                    /\ ~chainEvents[i].confirmed
                    /\ chainEvents[i].transaction.watched})
       = Cardinality({tx \in Received : tx.watched})

\* as many transactions as the behaviour allows were sent to as many scripts
\* of the filter, and an event was emitted for each of them
C25_Witness ==
  /\ Len(node.transactions) = MaxTransactions
  /\ node.rawtx = <<>>
  /\ \A i \in DOMAIN node.transactions, j \in DOMAIN node.transactions :
       /\ node.transactions[i].watched
       /\ i # j => node.transactions[i].script # node.transactions[j].script
  /\ Cardinality({i \in DOMAIN chainEvents : chainEvents[i].event = "transaction"
                                              /\ ~chainEvents[i].confirmed})
       = MaxTransactions

\* the blocks the node has published and the ZmqClient has received
ReceivedBlocks == {node.blocks[i] : i \in 1..(Len(node.blocks) - Len(node.rawblock))}

\* the transactions of the block for which an event with confirmed = false
\* was emitted before the block was received
SeenIn(block) ==
  {tx \in {block.transactions[i] : i \in DOMAIN block.transactions} :
     \E i \in Positions(TransactionEvent(tx, FALSE)),
        p \in Positions(BlockEvent(block.height)) : i < p}

\* C26: for every transaction of a received block that was seen in the
\* mempool, the ChainClient emits, after the event with confirmed = false,
\* one transaction event with confirmed = true: as many as there are such
\* transactions in the block
C26_ConfirmedEvents ==
  \A block \in ReceivedBlocks :
    /\ \A tx \in SeenIn(block) :
         /\ Cardinality(Positions(TransactionEvent(tx, TRUE))) = 1
         /\ \A i \in Positions(TransactionEvent(tx, FALSE)),
               j \in Positions(TransactionEvent(tx, TRUE)) : i < j
    /\ Cardinality({tx \in {block.transactions[i] : i \in DOMAIN block.transactions} :
                      Positions(TransactionEvent(tx, TRUE)) # {}})
         = Cardinality(SeenIn(block))

\* one block holds as many transactions as the behaviour allows, all of them
\* seen in the mempool, and an event with confirmed = true was emitted for each
C26_Witness ==
  \E block \in ReceivedBlocks :
    /\ Len(block.transactions) = MaxTransactions
    /\ Cardinality(SeenIn(block)) = MaxTransactions
    /\ \A tx \in SeenIn(block) : Positions(TransactionEvent(tx, TRUE)) # {}

\* the block events the ChainClient emitted
BlockEvents == SelectSeq(chainEvents, LAMBDA e : e.event = "block")

\* C27: the ChainClient emits one block event per block received, with the
\* heights in their order, and once every mined block is received the height
\* of the last block event is the height getBlockchainInfo reports
C27_BlockEvents ==
  /\ Len(BlockEvents) = Len(node.blocks) - Len(node.rawblock)
  /\ \A i \in DOMAIN BlockEvents : BlockEvents[i].height = node.blocks[i].height
  /\ (node.rawblock = <<>> /\ node.blocks # <<>>)
       => BlockEvents[Len(BlockEvents)].height = getBlockchainInfo.blocks

\* as many blocks as the behaviour allows were mined and received
C27_Witness ==
  /\ Len(node.blocks) = MaxBlocks
  /\ node.rawblock = <<>>
  /\ Len(BlockEvents) = MaxBlocks
  /\ BlockEvents[MaxBlocks].height = getBlockchainInfo.blocks

\* the satoshis per kB of the answer, when it has a fee rate
SatPerKb == feeCall.response.feerate.num * FeeStep

\* C28: estimateFee never returns less than 2; when the node answers with a
\* fee rate the result is the greater of 2 and the integer nearest to the
\* satoshis per kB divided by 1000, when it answers without one or does not
\* know the method the result is 2, and any other error is thrown to the
\* caller
C28_FeeFloor ==
  feeCall.pc \notin {"none", "called"} =>
    IF feeCall.response.error = NoError
    THEN /\ feeCall.pc = "returned"
         /\ feeCall.fee >= 2
         /\ feeCall.response.feerate = NoFeeRate => feeCall.fee = 2
         /\ feeCall.response.feerate # NoFeeRate =>
              /\ feeCall.fee > 2 =>
                   /\ 1000 * feeCall.fee - 500 <= SatPerKb
                   /\ SatPerKb < 1000 * feeCall.fee + 500
              /\ feeCall.fee = 2 => SatPerKb < 2500
    ELSE IF feeCall.response.error = "Method not found"
    THEN feeCall.pc = "returned" /\ feeCall.fee = 2
    ELSE feeCall.pc = "threw" /\ feeCall.thrown = feeCall.response.error

\* a fee rate halfway between two integers is rounded up: 3500 satoshis per
\* kB give 4
C28_Witness ==
  /\ feeCall.pc = "returned"
  /\ feeCall.response.feerate # NoFeeRate
  /\ SatPerKb = 3500
  /\ feeCall.fee = 4

\* C30: the quote amount of a swap used for the statistics is selected by
\* the direction of the swap and the order side: for a submarine swap it is
\* the onchain amount when the side is BUY and the amount of the invoice
\* when the side is SELL; for a reverse swap it is the amount of the invoice
\* when the side is BUY and the onchain amount when the side is SELL.
C30_QuoteAmount ==
  statsCall # NoCall /\ statsCall.pc = "returned" =>
    LET lightningAmount == getInvoiceAmt(statsCall.invoice) IN
      /\ ~statsCall.isReverse /\ statsCall.orderSide = BUY
           => statsCall.amount = statsCall.onchainAmount
      /\ ~statsCall.isReverse /\ statsCall.orderSide = SELL
           => statsCall.amount = lightningAmount
      /\ statsCall.isReverse /\ statsCall.orderSide = BUY
           => statsCall.amount = lightningAmount
      /\ statsCall.isReverse /\ statsCall.orderSide = SELL
           => statsCall.amount = statsCall.onchainAmount

\* a reverse swap on the BUY side whose invoice of 30n pays 3 satoshis for 4
\* satoshis onchain: the quote amount is 3
C30_Witness ==
  /\ statsCall # NoCall
  /\ statsCall.pc = "returned"
  /\ statsCall.isReverse
  /\ statsCall.orderSide = BUY
  /\ statsCall.invoice = [amount |-> 30, multiplier |-> "n"]
  /\ statsCall.onchainAmount = 4
  /\ statsCall.amount = 3

\* the markers of kind op emitted for swap id
MarkersOf(op, id) ==
  {<<k, i>> \in UNION {{<<k, j>> : j \in DOMAIN trace[k]} : k \in LockKeys} :
     trace[k][i].op = op /\ trace[k][i].id = id}

\* C31: no swap receives both a swap.success and a swap.failure: once one of
\* the two was emitted for a swap, the other one is never emitted for it
C31_SuccessOrFailure ==
  \A id \in Ids :
    MarkersOf("swap.success", id) = {} \/ MarkersOf("swap.failure", id) = {}

\* the entries of the trace of the reverse swaps
ReverseTrace == trace[reverseSwapLock]

\* entry i of the reverse trace is a swap.update TransactionConfirmed of id
ConfirmedUpdate(i, id) ==
  /\ ReverseTrace[i].op = "swap.update"
  /\ ReverseTrace[i].status = TransactionConfirmed
  /\ ReverseTrace[i].id = id

\* a step that moves reverse swap r to TransactionConfirmed is the write of
\* the handler of a confirmed transaction with the lockup transaction id of
\* r, and r was in TransactionMempool
ConfirmedByLockup(r) ==
  (reverseSwaps'[r].status = TransactionConfirmed /\ reverseSwaps'[r] # reverseSwaps[r]) =>
    /\ reverseSwaps[r].status = TransactionMempool
    /\ \E i \in LockHolders(queue[reverseSwapLock]) :
         LET t == queue[reverseSwapLock][i] IN
           /\ t.kind = "transaction"
           /\ t.confirmed
           /\ t.id = r
           /\ t.txid = reverseSwaps[r].transactionId

\* no handler of the reverse swaps belongs to an unconfirmed transaction
NoUnconfirmed ==
  /\ \A i \in DOMAIN queue[reverseSwapLock] :
       queue[reverseSwapLock][i].kind = "transaction" => queue[reverseSwapLock][i].confirmed
  /\ \A i \in DOMAIN ReverseTrace :
       ReverseTrace[i].kind = "transaction" => ReverseTrace[i].confirmed

\* a handler of a confirmed transaction that found r in TransactionMempool
\* emits the update once it has returned
EmittedOnce(r) ==
  \A i \in DOMAIN ReverseTrace :
    ( /\ ReverseTrace[i].op = "read"
      /\ ReverseTrace[i].kind = "transaction"
      /\ ReverseTrace[i].id = r
      /\ ReverseTrace[i].status = TransactionMempool
      /\ Finished(reverseSwapLock, ReverseTrace[i].h) ) =>
      Cardinality({j \in DOMAIN ReverseTrace :
                     ConfirmedUpdate(j, r) /\ ReverseTrace[j].h = ReverseTrace[i].h}) = 1

\* two updates TransactionConfirmed of r are separated by a coins.sent that
\* put r back to TransactionMempool: the outputs of one transaction, whose
\* handlers are queued together, emit one update
NotTwice(r) ==
  \A i \in DOMAIN ReverseTrace, j \in DOMAIN ReverseTrace :
    (i < j /\ ConfirmedUpdate(i, r) /\ ConfirmedUpdate(j, r)) =>
      \E m \in DOMAIN ReverseTrace :
        /\ i < m /\ m < j
        /\ ReverseTrace[m].op = "write"
        /\ ReverseTrace[m].kind = "coins.sent"
        /\ ReverseTrace[m].id = r

\* C32: a reverse swap is moved to TransactionConfirmed only by a confirmed
\* transaction with the id of its lockup transaction while the swap is in
\* TransactionMempool; an unconfirmed transaction never changes a reverse
\* swap; and a confirmed lockup transaction, whatever the number of its
\* outputs, emits exactly one swap.update TransactionConfirmed for the swap
C32_ConfirmedOnce ==
  [][ /\ \A r \in Rev : ConfirmedByLockup(r)
      /\ NoUnconfirmed'
      /\ \A r \in Rev : EmittedOnce(r)' /\ NotTwice(r)' ]_vars

\* both outputs of the confirmed lockup transaction were handled: the first
\* handler found r1 in TransactionMempool, the second one in
\* TransactionConfirmed, and one update was emitted
C32_Witness ==
  \E i \in DOMAIN ReverseTrace, j \in DOMAIN ReverseTrace :
    /\ ReverseTrace[i].op = "read" /\ ReverseTrace[j].op = "read"
    /\ ReverseTrace[i].kind = "transaction" /\ ReverseTrace[j].kind = "transaction"
    /\ ReverseTrace[i].id = "r1" /\ ReverseTrace[j].id = "r1"
    /\ ReverseTrace[i].status = TransactionMempool
    /\ ReverseTrace[j].status = TransactionConfirmed
    /\ ReverseTrace[j].h = ReverseTrace[i].h + 1
    /\ Finished(reverseSwapLock, ReverseTrace[j].h)
    /\ Cardinality({m \in DOMAIN ReverseTrace : ConfirmedUpdate(m, "r1")}) = 1

\* the statuses in which a lockup transaction is recorded for a submarine swap
Recordable == {NoStatus, TransactionMempool}

\* the statuses the claim names, in which it is not
Unrecordable ==
  {TransactionConfirmed, InvoicePaid, InvoiceFailedToPay, TransactionClaimed, SwapExpired}

\* the handler of a transaction event that pays the lockup address of s holds
\* the lock of the submarine swaps and is about to read the swap
TransactionHandler(s) ==
  \E i \in LockHolders(queue[swapLock]) :
    /\ queue[swapLock][i].kind = "transaction"
    /\ queue[swapLock][i].pc = "wait"
    /\ s \in Matches(queue[swapLock][i])

\* a transaction handler of the submarine swaps that wrote or emitted had
\* read a status in which the lockup transaction is recorded
RecordedWhileRecordable ==
  \A i \in DOMAIN trace[swapLock] :
    LET e == trace[swapLock][i] IN
      (e.kind = "transaction" /\ e.op # "read") =>
        /\ ReadIn(swapLock, e.h, Recordable)
        /\ ~ReadIn(swapLock, e.h, Unrecordable)

\* C33: a transaction event that pays the lockup address of a submarine swap
\* changes the swap only while its status is unset or TransactionMempool; in
\* TransactionConfirmed, InvoicePaid, InvoiceFailedToPay, TransactionClaimed
\* or SwapExpired it leaves lockupTransactionId, onchainAmount and status
\* unchanged and emits no swap.update
C33_OnlyWhileRecordable ==
  [][ /\ \A s \in Sub :
           (TransactionHandler(s) /\ swaps[s].status \in Unrecordable) =>
             /\ swaps'[s] = swaps[s]
             /\ \A i \in DOMAIN trace'[swapLock] \ DOMAIN trace[swapLock] :
                  trace'[swapLock][i].op = "read"
      /\ RecordedWhileRecordable' ]_vars

\* a transaction paying the lockup address of s1 was handled while s1 was in
\* InvoicePaid: the handler returned after its read
C33_Witness ==
  \E i \in DOMAIN trace[swapLock] :
    /\ trace[swapLock][i].op = "read"
    /\ trace[swapLock][i].kind = "transaction"
    /\ trace[swapLock][i].id = "s1"
    /\ trace[swapLock][i].status = InvoicePaid
    /\ Finished(swapLock, trace[swapLock][i].h)
    /\ swaps["s1"].status = InvoicePaid
    /\ swaps["s1"].lockupTransactionId # NoValue

\* the table the handlers of lock k read and write
TableOf(k) == IF k = swapLock THEN swaps ELSE reverseSwaps

\* the event of handler t is about the row: the column its handler looks the
\* swap up by holds the value the event came with
Concerns(t, row) ==
  IF t.reverse
  THEN IF t.kind \in {"transaction", "refund"}
       THEN row.transactionId = t.arg
       ELSE row.invoice = t.arg
  ELSE IF t.kind = "transaction" THEN row.lockupAddress = t.arg
       ELSE IF t.kind = "claim" THEN row.lockupTransactionId = t.arg
       ELSE row.invoice = t.arg

\* the entries a step appends to the trace of lock k
Appended(k) ==
  {trace'[k][i] : i \in DOMAIN trace'[k] \ DOMAIN trace[k]}

\* the swap the handler t is at work on, once it has read
AtWorkOn(t, id) == t.pc # "wait" /\ t.id = id

\* a step leaves swap id of the table of lock k as it was: the row, the
\* trace and the message of the Controller
Untouched(k, id) ==
  /\ TableOf(k)'[id] = TableOf(k)[id]
  /\ \A e \in Appended(k) : e.id # id
  /\ pendingSwapInfos'[id] = pendingSwapInfos[id]

\* C34: an event leaves every swap it does not match unchanged: an event
\* whose lockup address, transaction id or invoice matches no stored swap
\* writes nothing and emits nothing, and an event that matches swap A never
\* changes the status of, or emits an update for, a different swap B
C34_Frame ==
  [][ \A k \in LockKeys :
        /\ queue[k] = <<>> => \A id \in DOMAIN TableOf(k) : Untouched(k, id)
        /\ \A i \in LockHolders(queue[k]) :
             LET t == queue[k][i] IN
               /\ t.pc # "wait" => Concerns(t, TableOf(k)[t.id])
               /\ \A id \in DOMAIN TableOf(k) :
                    ~Concerns(t, TableOf(k)[id]) => Untouched(k, id)
               /\ (\A id \in DOMAIN TableOf(k) : ~Concerns(t, TableOf(k)[id])) =>
                    \A e \in Appended(k) : e.op = "read" /\ e.id = NoSwap ]_vars

\* the handler of an invoice.paid event for the invoice of no swap has
\* returned after its read, and an invoice.paid event for the invoice of s1
\* was handled while s2 stayed as it was created
C34_Witness ==
  /\ \E i \in DOMAIN trace[swapLock] :
       /\ trace[swapLock][i].op = "read"
       /\ trace[swapLock][i].kind = "invoice.paid"
       /\ trace[swapLock][i].arg = StrangerInvoice
       /\ trace[swapLock][i].id = NoSwap
       /\ Finished(swapLock, trace[swapLock][i].h)
  /\ \E i \in DOMAIN trace[swapLock] :
       /\ trace[swapLock][i].op = "swap.update"
       /\ trace[swapLock][i].id = "s1"
       /\ trace[swapLock][i].status = InvoicePaid
  /\ "s2" \in DOMAIN swaps
  /\ swaps["s2"].status = NoStatus
  /\ pendingSwapInfos["s2"] = NoInfo

\* response other was registered after response res: the requests take the
\* responses in their order
RegisteredAfter(other, res) == other = "res2" /\ res = "res1"

\* res is the most recently registered stream of its swap that has not closed
LatestOpen(res) ==
  /\ responses[res].state = "open"
  /\ ~\E other \in Responses :
        /\ RegisteredAfter(other, res)
        /\ responses[other].state = "open"
        /\ responses[other].id = responses[res].id

\* C35: a status stream that is still open keeps receiving updates: the most
\* recently registered stream of a swap that has not itself closed is the
\* one the updates of the swap are written to, so closing an older stream
\* of the swap does not remove the registration of a newer one
C35_LatestOpenRegistered ==
  \A res \in Responses :
    LatestOpen(res) => pendingSwapStreams[responses[res].id] = res

\* the message swapStatus serves for swap id after a restart in this state
Rebuilt(id) == ControllerInit(swaps, reverseSwaps)[id]

\* C36: the status message served for a reverse swap in InvoiceSettled is the
\* same whether it was cached from the invoice.settled event or rebuilt by
\* Controller.init after a restart, and it carries the status and the
\* preimage in both cases
C36_SameSettledMessage ==
  \A r \in Rev :
    ( /\ reverseSwaps[r].status = InvoiceSettled
      /\ pendingSwapInfos[r].status = InvoiceSettled ) =>
      /\ pendingSwapInfos[r] = Rebuilt(r)
      /\ pendingSwapInfos[r].preimage = reverseSwaps[r].preimage
      /\ pendingSwapInfos[r].preimage # NoValue

\* the call of verifyAmount has returned or thrown
Verified == reverseSwapCall.pc \in {"fees", "failed"} /\ "amount" \in DOMAIN reverseSwapCall

\* twice the amount the claim compares, which is a whole number of halves:
\* the invoice amount, or floor(amount * rate) when the order side is SELL
TwiceCompared ==
  LET c == reverseSwapCall IN
    IF c.orderSide = SELL
    THEN 2 * ((c.amount.num * c.rate.num) \div (c.amount.den * c.rate.den))
    ELSE c.amount.num * (2 \div c.amount.den)

\* floor and ceil of a number of halves
FloorOfHalves(h) == h \div 2
CeilOfHalves(h) == (h + 1) \div 2

\* C37: the amount compared with the limits of the pair is the invoice
\* amount, converted to floor(amount * rate) when the order side is SELL;
\* the call fails with CURRENCY_NOT_FOUND when the pair has no limits, with
\* EXCEED_MAXIMAL_AMOUNT when floor(amount) > maximal, with
\* BENEATH_MINIMAL_AMOUNT when ceil(amount) < minimal, and is accepted
\* otherwise, so that amounts equal to either limit are accepted
C37_Limits ==
  Verified =>
    LET c == reverseSwapCall IN
      /\ ~c.hasLimits => c.pc = "failed" /\ c.error = "CURRENCY_NOT_FOUND"
      /\ c.hasLimits =>
           /\ FloorOfHalves(TwiceCompared) > Limits.maximal
                => c.pc = "failed" /\ c.error = "EXCEED_MAXIMAL_AMOUNT"
           /\ ( /\ FloorOfHalves(TwiceCompared) <= Limits.maximal
                /\ CeilOfHalves(TwiceCompared) < Limits.minimal )
                => c.pc = "failed" /\ c.error = "BENEATH_MINIMAL_AMOUNT"
           /\ ( /\ FloorOfHalves(TwiceCompared) <= Limits.maximal
                /\ CeilOfHalves(TwiceCompared) >= Limits.minimal )
                => c.pc = "fees" /\ c.error = NoError
           /\ TwiceCompared \in {2 * Limits.minimal, 2 * Limits.maximal}
                => c.pc = "fees"

\* an amount half a satoshi above the maximal is accepted on the BUY side:
\* its floor is the maximal
C37_Witness ==
  /\ Verified
  /\ reverseSwapCall.pc = "fees"
  /\ reverseSwapCall.orderSide = BUY
  /\ reverseSwapCall.amount = [num |-> 2 * Limits.maximal + 1, den |-> 2]

\* the symbols of the currencies the WalletManager was made for
ListedSymbols ==
  {walletManager.currencies[i].symbol : i \in DOMAIN walletManager.currencies}

\* the key providers stored for a symbol
ProvidersOf(symbol) == {row \in keyRepository : row.symbol = symbol}

\* the highest index of the stored paths, -1 without a key provider
HighestStoredIndex ==
  IF keyRepository = {} THEN -1
  ELSE CHOOSE index \in {row.derivationPath[2] : row \in keyRepository} :
         \A row \in keyRepository : row.derivationPath[2] <= index

\* no two key providers, and no two wallets, share a derivation path
DistinctPaths ==
  /\ \A a \in keyRepository, b \in keyRepository :
       a.derivationPath = b.derivationPath => a = b
  /\ \A a \in DOMAIN walletManager.wallets, b \in DOMAIN walletManager.wallets :
       walletManager.wallets[a].derivationPath = walletManager.wallets[b].derivationPath
         => a = b

\* after init every currency has one key provider, and its wallet has the
\* path and the highest used index of it
OneProviderEach ==
  walletManager.pc = "done" =>
    \A symbol \in ListedSymbols :
      /\ Cardinality(ProvidersOf(symbol)) = 1
      /\ symbol \in DOMAIN walletManager.wallets
      /\ \A row \in ProvidersOf(symbol) :
           walletManager.wallets[symbol] = Wallet(row)

\* a step keeps the stored key providers as they are, and what it adds is
\* one key provider with the path m/0/(highest index + 1) and a highest used
\* index of 0, for a currency that had none
AddsAfterHighest ==
  /\ keyRepository \subseteq keyRepository'
  /\ Cardinality(keyRepository' \ keyRepository) <= 1
  /\ \A row \in keyRepository' \ keyRepository :
       /\ ProvidersOf(row.symbol) = {}
       /\ row.symbol \in ListedSymbols
       /\ row.derivationPath = <<0, HighestStoredIndex + 1>>
       /\ row.highestUsedIndex = 0

\* a run of init after one that returned adds no key provider
SecondRunAddsNothing ==
  walletManager.runs = MaxRuns /\ walletManager.error = NoError /\ walletManager.pc # "new"
    => (walletManager'.runs = MaxRuns => keyRepository' = keyRepository)

\* C39: after WalletManager.init no two currencies share a derivation path: a
\* currency with a stored key provider keeps its stored path and highest
\* used index, a currency without one gets the path m/0/(highest existing
\* index + 1), index 0 when none exist, with a highest used index of 0, and
\* exactly one key provider is persisted for it, so that running init again
\* adds no key provider
C39_DerivationPaths ==
  [][ /\ DistinctPaths'
      /\ OneProviderEach'
      /\ AddsAfterHighest
      /\ SecondRunAddsNothing ]_vars

\* init returned twice for BTC and LTC with a key provider stored for LTC at
\* m/0/2 only: LTC kept its path and BTC got m/0/3
C39_Witness ==
  /\ walletManager.pc = "done"
  /\ walletManager.runs = MaxRuns
  /\ ListedSymbols = {"BTC", "LTC"}
  /\ keyRepository = {KeyProvider("LTC", 2, StoredHighestUsedIndex),
                      KeyProvider("BTC", 3, 0)}
  /\ walletManager.wallets["BTC"] = [derivationPath |-> <<0, 3>>, highestUsedIndex |-> 0]
  /\ walletManager.wallets["LTC"] =
       [derivationPath |-> <<0, 2>>, highestUsedIndex |-> StoredHighestUsedIndex]

\* the operation has returned or thrown
Answered == service # NoCall /\ service.pc \in {"returned", "threw"}

\* the symbol of the call is the key of no currency and of no wallet
Unconfigured ==
  service.symbol \notin
    service.currencies \cup service.swapManagerCurrencies \cup DOMAIN walletManager.wallets

\* the lookup of the operation finds nothing for the symbol of the call
LookupFails ==
  LET wallets == DOMAIN walletManager.wallets IN
    CASE service.op \in {"getBalance", "newAddress"} -> service.symbol \notin wallets
      [] service.op \in {"getTransaction", "broadcastTransaction"} ->
           service.symbol \notin service.swapManagerCurrencies
      [] service.op = "getFeeEstimation" -> service.symbol \notin service.currencies
      [] service.op = "sendCoins" ->
           \/ service.symbol \notin service.swapManagerCurrencies
           \/ service.symbol \notin wallets

\* the call came with a symbol; getBalance and getFeeEstimation without one
\* answer for every wallet and every currency
SymbolGiven ==
  service.symbol # NoValue \/ service.op \notin {"getBalance", "getFeeEstimation"}

\* C38: every operation of the Service that takes a symbol fails with
\* CURRENCY_NOT_FOUND when the symbol has no configured currency or wallet,
\* and then no request was sent to a chain client, no address was derived and
\* no transaction was built or broadcast
C38_CurrencyNotFound ==
  Answered =>
    /\ (SymbolGiven /\ (Unconfigured \/ LookupFails)) =>
         /\ service.pc = "threw"
         /\ service.error = "CURRENCY_NOT_FOUND"
    /\ service.error = "CURRENCY_NOT_FOUND" => service.sent = {}

\* sendCoins for a symbol that swapManager knows and that has no wallet
C38_Witness ==
  /\ Answered
  /\ service.op = "sendCoins"
  /\ service.symbol = "LTC"
  /\ "LTC" \in service.swapManagerCurrencies
  /\ "LTC" \notin DOMAIN walletManager.wallets
  /\ service.satPerVbyte = 0
  /\ service.pc = "threw"
  /\ service.error = "CURRENCY_NOT_FOUND"
  /\ service.sent = {}

====
